---------------------------- MODULE Spec2Model ----------------------------
(***************************************************************************)
(* Model of the subway-congestion batch pipeline:                          *)
(*   src/src/transform.py  column standardizer, reshaper, cleanser,        *)
(*                         validator, phase-1 driver                       *)
(*   src/src/metrics.py    classifier, the five aggregates, phase-2 driver *)
(*   src/run_pipeline.py   main                                            *)
(*   src/src/io.py         loader (encoding fallback)                      *)
(*                                                                         *)
(* Text is a sequence of one-character tokens.  The Korean characters of   *)
(* the source are written in ASCII: "si" is the hour mark of a time header *)
(* (U+C2DC), "bun" the minute mark (U+BD84); each of the five identifier   *)
(* labels of COLUMN_MAPPING, and each canonical column name, is one token  *)
(* (they are only ever compared as whole strings).                         *)
(*                                                                         *)
(* A table (DataFrame) is [cols |-> sequence of column names,              *)
(* rows |-> sequence of rows], a row being a sequence of cells aligned     *)
(* with cols.  A cell is [t, n, s]: t = "num" with the number n,           *)
(* t = "str" with the text s, or t = "nan" (missing).                      *)
(***************************************************************************)
EXTENDS Integers, Sequences, FiniteSets, TLC

VARIABLES
    pc,         \* position of the run / which operation has been applied
    input_csv,  \* the source file: whether it exists, how it reads under
                \* each encoding, and the table it holds
    load,       \* the call of load_csv: its encodings argument, the
                \* encodings tried, the one used, the error message
    levels,     \* the calls of get_congestion_level: [congestion, level]
    raw,        \* the table as loaded (wide, raw headers)
    df,         \* the wide table after standardize_columns
    df_long,    \* the long table (after wide_to_long, then cleansing)
    report,     \* the quality report of validate_data
    results,    \* the aggregates computed: sequence of [name, rows]
    err,        \* the exception that ended the operation, "none" if none
    files,      \* artifacts written so far, in order
    exit_code   \* -1 while running, then the process exit status

vars == <<pc, input_csv, load, levels, raw, df, df_long, report, results,
          err, files, exit_code>>

---------------------------------------------------------------------------
(* Generic helpers *)

Range(f) == {f[i] : i \in DOMAIN f}

RECURSIVE SumSeq(_)
SumSeq(s) == IF s = <<>> THEN 0 ELSE Head(s) + SumSeq(Tail(s))

RECURSIVE Flatten(_)
Flatten(ss) == IF ss = <<>> THEN <<>> ELSE Head(ss) \o Flatten(Tail(ss))

\* The subsequence of s of the elements satisfying Keep, order preserved.
RECURSIVE SelectIdx(_, _)
SelectIdx(s, keep) ==
    IF s = <<>> THEN <<>>
    ELSE (IF 1 \in keep THEN <<Head(s)>> ELSE <<>>)
         \o SelectIdx(Tail(s), {i - 1 : i \in keep \ {1}})

SeqsUpTo(S, n) == UNION {[1..k -> S] : k \in 0..n}

IsInjective(s) == \A i, j \in DOMAIN s : s[i] = s[j] => i = j

---------------------------------------------------------------------------
(* Text *)

DigitToks == <<"0", "1", "2", "3", "4", "5", "6", "7", "8", "9">>

IsDigit(c) == \E i \in DOMAIN DigitToks : DigitToks[i] = c

DigitVal(c) == (CHOOSE i \in DOMAIN DigitToks : DigitToks[i] = c) - 1

\* int() of a non-empty digit string
RECURSIVE DigitsToInt(_)
DigitsToInt(ds) ==
    IF ds = <<>> THEN 0
    ELSE 10 * DigitsToInt(SubSeq(ds, 1, Len(ds) - 1)) + DigitVal(ds[Len(ds)])

\* str() of a natural number
RECURSIVE NatToDigits(_)
NatToDigits(n) ==
    IF n < 10 THEN <<DigitToks[n + 1]>>
    ELSE NatToDigits(n \div 10) \o <<DigitToks[(n % 10) + 1]>>

\* Length of the longest prefix of s made of digits: what \d+ consumes.
RECURSIVE LeadDigits(_)
LeadDigits(s) ==
    IF s # <<>> /\ IsDigit(Head(s)) THEN 1 + LeadDigits(Tail(s)) ELSE 0

Drop(s, k) == SubSeq(s, k + 1, Len(s))

---------------------------------------------------------------------------
(* Cells and tables *)

NaN == [t |-> "nan", n |-> 0, s |-> <<>>]
Num(x) == [t |-> "num", n |-> x, s |-> <<>>]
Str(x) == [t |-> "str", n |-> 0, s |-> x]

IsNaN(c) == c.t = "nan"

HasCol(d, c) == \E i \in DOMAIN d.cols : d.cols[i] = c

\* Position of the (first) column named c.
ColIdx(d, c) == CHOOSE i \in DOMAIN d.cols :
                    d.cols[i] = c /\ \A j \in 1..(i - 1) : d.cols[j] # c

\* The column named c, as the sequence of its cells.
Column(d, c) == [r \in DOMAIN d.rows |-> d.rows[r][ColIdx(d, c)]]

EmptyTable == [cols |-> <<>>, rows |-> <<>>]

\* The cell of row r under the column named c.
At(d, r, c) == d.rows[r][ColIdx(d, c)]

\* All rows under a header row, each cell drawn from dom[header].
RECURSIVE RowSet(_, _)
RowSet(layout, dom) ==
    IF layout = <<>> THEN {<<>>}
    ELSE {<<c>> \o r : c \in dom[Head(layout)],
                       r \in RowSet(Tail(layout), dom)}

---------------------------------------------------------------------------
(* io.py: loader *)

\* The default of the encodings argument (line 42).
DEFAULT_ENCODINGS == <<"cp949", "euc-kr", "utf-8-sig", "utf-8">>

\* The encoding names a caller may pass: the four known ones and one that
\* Python does not know.
EncodingNames == Range(DEFAULT_ENCODINGS) \cup {"bogus"}

\* How pd.read_csv(file, encoding=e) ends for a file whose bytes decode
\* under the encodings dec and whose text is (parses) or is not a CSV
\* table: an unknown encoding name is a LookupError, undecodable bytes a
\* UnicodeDecodeError, decodable bytes that are no table a ParserError.
ReadsOf(dec, parses) ==
    [e \in EncodingNames |->
        IF e \notin Range(DEFAULT_ENCODINGS) THEN "LookupError"
        ELSE IF e \notin dec THEN "UnicodeDecodeError"
        ELSE IF parses THEN "ok" ELSE "ParserError"]

\* A loop that goes on to the next candidate after any error of the read.
CaughtAny == {"UnicodeDecodeError", "LookupError", "ParserError"}

\* The errors the loop catches to go on with the next candidate (line 51).
Caught == {"UnicodeDecodeError", "LookupError"}

\* load_csv going on to the next candidate after a success as well: the
\* table of the last candidate that reads is returned.
load_csv_last(f, encodings) ==
    LET oks  == {i \in DOMAIN encodings : f.reads[encodings[i]] = "ok"}
        last == CHOOSE i \in oks : \A j \in oks : j <= i
        NoMessage == [encodings |-> <<>>, last_error |-> "none"]
    IN  IF ~f.exists \/ oks = {}
        THEN [raised |-> "ValueError", table |-> EmptyTable,
              tried |-> encodings, encoding |-> "none",
              message |-> [encodings |-> encodings, last_error |-> "none"]]
        ELSE [raised |-> "none", table |-> f.table, tried |-> encodings,
              encoding |-> encodings[last], message |-> NoMessage]

\* load_csv(file_path, encodings) on the file f: the exception raised
\* ("none" if it returns), the table returned, the encodings tried in
\* order, the encoding the table was read with, and what the ValueError of
\* lines 56-60 names: the encodings and the last error caught.
load_csv(f, encodings) ==
    LET stops == {i \in DOMAIN encodings : f.reads[encodings[i]] \notin Caught}
        first == CHOOSE i \in stops : \A j \in stops : i <= j
        NoMessage == [encodings |-> <<>>, last_error |-> "none"]
    IN  IF ~f.exists
        THEN [raised |-> "FileNotFoundError", table |-> EmptyTable,
              tried |-> <<>>, encoding |-> "none", message |-> NoMessage]
        ELSE IF stops = {}
        THEN [raised |-> "ValueError", table |-> EmptyTable,
              tried |-> encodings, encoding |-> "none",
              message |-> [encodings  |-> encodings,
                           last_error |-> IF encodings = <<>> THEN "None"
                                          ELSE f.reads[encodings[Len(encodings)]]]]
        ELSE IF f.reads[encodings[first]] = "ok"
        THEN [raised |-> "none", table |-> f.table,
              tried |-> SubSeq(encodings, 1, first),
              encoding |-> encodings[first], message |-> NoMessage]
        ELSE [raised |-> f.reads[encodings[first]], table |-> EmptyTable,
              tried |-> SubSeq(encodings, 1, first),
              encoding |-> "none", message |-> NoMessage]

\* load_csv not called yet, with the encodings it will be called with.
LoadArgs(encodings) ==
    [encodings |-> encodings, tried |-> <<>>, encoding |-> "none",
     message |-> [encodings |-> <<>>, last_error |-> "none"]]

\* run_pipeline calls load_csv(input_path): the default candidates.
NoLoad == LoadArgs(DEFAULT_ENCODINGS)

---------------------------------------------------------------------------
(* transform.py: column standardizer *)

\* The keys of COLUMN_MAPPING, one token per Korean label:
\*   yoilgubun, hoseon, yeokbeonho, chulbalyeok, sanghagubun.
COLUMN_MAPPING ==
    [h \in {<<"yoilgubun">>, <<"hoseon">>, <<"yeokbeonho">>,
            <<"chulbalyeok">>, <<"sanghagubun">>} |->
        CASE h = <<"yoilgubun">>   -> <<"day_type">>
          [] h = <<"hoseon">>      -> <<"line">>
          [] h = <<"yeokbeonho">>  -> <<"station_code">>
          [] h = <<"chulbalyeok">> -> <<"station_name">>
          [] h = <<"sanghagubun">> -> <<"direction">>]

\* f"{v:02d}" for v >= 0
Fmt02d(v) == IF v < 10 THEN <<"0">> \o NatToDigits(v) ELSE NatToDigits(v)

\* re.match(r'(\d+)si(\d+)bun', col_name): anchored at the start only.
TimeMatch(col_name) ==
    LET k1   == LeadDigits(col_name)
        rest == Drop(col_name, k1 + 1)
        k2   == LeadDigits(rest)
    IN  /\ k1 >= 1
        /\ Len(col_name) > k1
        /\ col_name[k1 + 1] = "si"
        /\ k2 >= 1
        /\ Len(rest) > k2
        /\ rest[k2 + 1] = "bun"

MatchHour(col_name) == DigitsToInt(SubSeq(col_name, 1, LeadDigits(col_name)))

MatchMinute(col_name) ==
    LET rest == Drop(col_name, LeadDigits(col_name) + 1)
    IN  DigitsToInt(SubSeq(rest, 1, LeadDigits(rest)))

\* A variant that forgets the zero padding.
standardize_time_column_nopad(col_name) ==
    IF TimeMatch(col_name)
    THEN NatToDigits(MatchHour(col_name)) \o <<":">>
         \o NatToDigits(MatchMinute(col_name))
    ELSE <<>>

\* Returns the HH:MM label, or <<>> for None.
standardize_time_column(col_name) ==
    IF TimeMatch(col_name)
    THEN Fmt02d(MatchHour(col_name)) \o <<":">> \o Fmt02d(MatchMinute(col_name))
    ELSE <<>>

\* The new name of one column: rename_dict.get(col, col).
RenameOf(col) ==
    IF col \in DOMAIN COLUMN_MAPPING THEN COLUMN_MAPPING[col]
    ELSE IF standardize_time_column(col) # <<>>
         THEN standardize_time_column(col)
         ELSE col

standardize_columns(d) ==
    [cols |-> [i \in DOMAIN d.cols |-> RenameOf(d.cols[i])],
     rows |-> d.rows]

---------------------------------------------------------------------------
(* transform.py: reshaper *)

ID_COLS == << <<"day_type">>, <<"line">>, <<"station_code">>,
              <<"station_name">>, <<"direction">> >>

IsIdCol(c) == \E i \in DOMAIN ID_COLS : ID_COLS[i] = c

\* id_cols = [col for col in id_cols if col in df.columns]
IdColsOf(d) == SelectSeq(ID_COLS, LAMBDA c : HasCol(d, c))

\* time_cols = [col for col in df.columns if col not in id_cols], as the
\* positions of these columns in df.columns.
TimeColsOf(d) ==
    SelectSeq([j \in DOMAIN d.cols |-> j], LAMBDA j : ~IsIdCol(d.cols[j]))

\* The identifier values of row i, in the order of id_cols.
IdVals(d, i) ==
    LET ids == IdColsOf(d)
    IN  [q \in DOMAIN ids |-> d.rows[i][ColIdx(d, ids[q])]]

\* One output row of melt: row i under the value column at position j.
MeltRow(d, i, j) == IdVals(d, i) \o <<Str(d.cols[j]), d.rows[i][j]>>

\* A variant of the reshape that drops the records without a value.
wide_to_long_dropna(d) ==
    LET tcs == TimeColsOf(d)
        all == Flatten([jj \in DOMAIN tcs |->
                          [i \in DOMAIN d.rows |-> MeltRow(d, i, tcs[jj])]])
    IN  [cols |-> IdColsOf(d) \o << <<"time_slot">>, <<"congestion">> >>,
         rows |-> SelectSeq(all, LAMBDA r : ~IsNaN(r[Len(r)]))]

\* A variant of the reshape that keeps one record per distinct content.
wide_to_long_dedup(d) ==
    LET tcs == TimeColsOf(d)
        all == Flatten([jj \in DOMAIN tcs |->
                          [i \in DOMAIN d.rows |-> MeltRow(d, i, tcs[jj])]])
    IN  [cols |-> IdColsOf(d) \o << <<"time_slot">>, <<"congestion">> >>,
         rows |-> SelectIdx(all, {k \in DOMAIN all :
                                    \A k0 \in 1..(k - 1) : all[k0] # all[k]})]

\* df.melt(id_vars=id_cols, value_vars=time_cols, var_name='time_slot',
\*         value_name='congestion'): the value columns one after the other,
\* each contributing one record per row of the wide table, in row order.
wide_to_long(d) ==
    LET tcs == TimeColsOf(d)
    IN  [cols |-> IdColsOf(d) \o << <<"time_slot">>, <<"congestion">> >>,
         rows |-> Flatten([jj \in DOMAIN tcs |->
                              [i \in DOMAIN d.rows |-> MeltRow(d, i, tcs[jj])]])]

---------------------------------------------------------------------------
(* transform.py: value cleanser *)

IsSpace(c) == c = " "

RECURSIVE LStrip(_)
LStrip(s) == IF s # <<>> /\ IsSpace(Head(s)) THEN LStrip(Tail(s)) ELSE s

RECURSIVE RStrip(_)
RStrip(s) ==
    IF s # <<>> /\ IsSpace(s[Len(s)]) THEN RStrip(SubSeq(s, 1, Len(s) - 1)) ELSE s

\* str.strip()
Strip(s) == LStrip(RStrip(s))

\* str(x) of a cell: astype(str)
AsStr(c) ==
    CASE c.t = "str" -> c.s
      [] c.t = "nan" -> <<"n", "a", "n">>
      [] c.t = "num" -> IF c.n < 0 THEN <<"-">> \o NatToDigits(-c.n)
                        ELSE NatToDigits(c.n)

AllDigits(s) == s # <<>> /\ \A i \in DOMAIN s : IsDigit(s[i])

\* pd.to_numeric(errors='coerce') of one cell: a number stays, text is
\* parsed (blanks around it ignored), anything unparsable becomes missing.
ToNumeric(c) ==
    IF c.t # "str" THEN c
    ELSE LET s == Strip(c.s)
         IN  IF AllDigits(s) THEN Num(DigitsToInt(s))
             ELSE IF s # <<>> /\ Head(s) = "-" /\ AllDigits(Tail(s))
                  THEN Num(-DigitsToInt(Tail(s)))
                  ELSE NaN

\* The column has dtype object: it holds text.
IsObjectColumn(d, c) ==
    \E r \in DOMAIN d.rows : d.rows[r][ColIdx(d, c)].t = "str"

\* df[c] = vals: the table with column c replaced by the cells vals.
WithColumn(d, c, vals) ==
    [cols |-> d.cols,
     rows |-> [r \in DOMAIN d.rows |->
                 [j \in DOMAIN d.cols |->
                     IF j = ColIdx(d, c) THEN vals[r] ELSE d.rows[r][j]]]]

\* Lines 156-160 without lines 163-166: a negative number is kept.
CleanCongestionCellKeepNegative(c, obj) ==
    ToNumeric(IF obj THEN Str(Strip(AsStr(c))) ELSE c)

\* Lines 156-166 with a value above 200 made missing as well.
CleanCongestionCellDropOutlier(c, obj) ==
    LET numeric == ToNumeric(IF obj THEN Str(Strip(AsStr(c))) ELSE c)
    IN  IF numeric.t = "num" /\ (numeric.n < 0 \/ numeric.n > 200)
        THEN NaN ELSE numeric

\* Lines 156-166 on one cell; obj says whether the column holds text.
CleanCongestionCell(c, obj) ==
    LET stripped == IF obj THEN Str(Strip(AsStr(c))) ELSE c
        numeric  == ToNumeric(stripped)
    IN  IF numeric.t = "num" /\ numeric.n < 0 THEN NaN ELSE numeric

clean_congestion_values(d) ==
    IF ~HasCol(d, <<"congestion">>) THEN d
    ELSE LET obj == IsObjectColumn(d, <<"congestion">>)
             col == Column(d, <<"congestion">>)
         IN  WithColumn(d, <<"congestion">>,
                        [r \in DOMAIN col |-> CleanCongestionCell(col[r], obj)])

\* A replacement of each pair of blanks by one blank.
RECURSIVE CollapsePairs(_)
CollapsePairs(s) ==
    IF Len(s) < 2 THEN s
    ELSE IF IsSpace(s[1]) /\ IsSpace(s[2])
         THEN <<" ">> \o CollapsePairs(Tail(Tail(s)))
         ELSE <<Head(s)>> \o CollapsePairs(Tail(s))

\* str.replace(r'\s+', ' ', regex=True): each run of blanks becomes one.
RECURSIVE CollapseSpaces(_)
CollapseSpaces(s) ==
    IF s = <<>> THEN <<>>
    ELSE IF IsSpace(Head(s))
         THEN <<" ">> \o CollapseSpaces(LStrip(s))
         ELSE <<Head(s)>> \o CollapseSpaces(Tail(s))

\* A cleanser whose text operations pass a missing name through.
clean_station_names_keep_missing(d) ==
    IF ~HasCol(d, <<"station_name">>) THEN d
    ELSE LET col == Column(d, <<"station_name">>)
         IN  WithColumn(d, <<"station_name">>,
                        [r \in DOMAIN col |->
                            IF IsNaN(col[r]) THEN NaN
                            ELSE Str(CollapseSpaces(Strip(AsStr(col[r]))))])

\* Lines 193-204: astype(str) turns every cell into text, a missing one
\* into 'nan'; then the blanks are stripped and collapsed.
clean_station_names(d) ==
    IF ~HasCol(d, <<"station_name">>) THEN d
    ELSE LET col == Column(d, <<"station_name">>)
         IN  WithColumn(d, <<"station_name">>,
                        [r \in DOMAIN col |->
                            Str(CollapseSpaces(Strip(AsStr(col[r]))))])

---------------------------------------------------------------------------
(* Numbers: a mean or a variance is a fraction num/den (den > 0) or NaN *)

NaNQ == [nan |-> TRUE, num |-> 0, den |-> 1]
Q(a, b) == [nan |-> FALSE, num |-> a, den |-> b]

QLess(x, y) == ~x.nan /\ ~y.nan /\ x.num * y.den < y.num * x.den
QEq(x, y) == ~x.nan /\ ~y.nan /\ x.num * y.den = y.num * x.den
QLeq(x, y) == QLess(x, y) \/ QEq(x, y)

\* The non-missing numbers of a sequence of cells, in order.
NonMissing(cells) ==
    LET kept == SelectSeq(cells, LAMBDA c : c.t = "num")
    IN  [i \in DOMAIN kept |-> kept[i].n]

\* mean(): NaN over no value.
Mean(vs) == IF vs = <<>> THEN NaNQ ELSE Q(SumSeq(vs), Len(vs))

\* var() with ddof: the squared deviations from the mean over n - ddof;
\* NaN when n - ddof <= 0.
VarDdof(vs, ddof) ==
    LET n == Len(vs)
        S == SumSeq(vs)
    IN  IF n - ddof <= 0 THEN NaNQ
        ELSE Q(SumSeq([i \in DOMAIN vs |-> (n * vs[i] - S) * (n * vs[i] - S)]),
               n * n * (n - ddof))

\* Series.var(): the sample variance (ddof = 1).
Var(vs) == VarDdof(vs, 1)

MaxOf(vs) == IF vs = <<>> THEN NaN
             ELSE Num(CHOOSE m \in Range(vs) : \A x \in Range(vs) : x <= m)

MinOf(vs) == IF vs = <<>> THEN NaN
             ELSE Num(CHOOSE m \in Range(vs) : \A x \in Range(vs) : m <= x)

---------------------------------------------------------------------------
(* transform.py: validator / reporter *)

\* Series.unique(): the distinct cells, a missing one included.
Unique(d, c) == Range(Column(d, c))

\* Series.nunique(): the number of distinct non-missing cells.
NUnique(d, c) == Cardinality({x \in Unique(d, c) : ~IsNaN(x)})

\* sorted(list) raises TypeError when it has to order text against a
\* number or against a missing value (a float NaN).
SortedRaises(cells) ==
    (\E x \in cells : x.t = "str") /\ (\E y \in cells : y.t # "str")

\* The columns whose distinct values validate_data sorts, in its order.
SORTED_COLS == << <<"line">>, <<"time_slot">>, <<"direction">>, <<"day_type">> >>

\* The values of vs in ascending order.
SortInts(vs) ==
    LET pos(i) == Cardinality({j \in DOMAIN vs :
                      vs[j] < vs[i] \/ (vs[j] = vs[i] /\ j < i)}) + 1
    IN  [p \in DOMAIN vs |-> vs[CHOOSE i \in DOMAIN vs : pos(i) = p]]

\* Series.median(): NaN over no value.
Median(vs) ==
    LET n  == Len(vs)
        sv == SortInts(vs)
    IN  IF n = 0 THEN NaNQ
        ELSE IF n % 2 = 1 THEN Q(sv[(n + 1) \div 2], 1)
             ELSE Q(sv[n \div 2] + sv[(n \div 2) + 1], 2)

\* zero_count / len(congestion) with zero_count a plain Python int: the
\* division by zero raises.
ZeroRatioPlainInt(zero_count, n) ==
    IF n = 0 THEN [raised |-> "ZeroDivisionError", val |-> NaNQ]
    ELSE [raised |-> "none", val |-> Q(zero_count, n)]

\* zero_count / len(congestion), line 263: zero_count is the numpy integer
\* that Series.sum() returns, so 0 / 0 is nan (with a RuntimeWarning), not
\* a ZeroDivisionError.
ZeroRatio(zero_count, n) ==
    IF n = 0 THEN [raised |-> "none", val |-> NaNQ]
    ELSE [raised |-> "none", val |-> Q(zero_count, n)]

\* The exception validate_data ends with on table d, "none" if it returns.
ValidateError(d) ==
    IF \E i \in DOMAIN SORTED_COLS :
          HasCol(d, SORTED_COLS[i]) /\ SortedRaises(Unique(d, SORTED_COLS[i]))
    THEN "TypeError"
    ELSE IF HasCol(d, <<"congestion">>)
         THEN LET vs == NonMissing(Column(d, <<"congestion">>))
              IN  ZeroRatio(Cardinality({i \in DOMAIN vs : vs[i] = 0}),
                            Len(vs)).raised
         ELSE "none"

\* The keys of the report that depend on a column being present.
ReportKeys(d) ==
    (IF HasCol(d, <<"station_name">>) THEN {"unique_stations"} ELSE {})
    \cup (IF HasCol(d, <<"line">>) THEN {"unique_lines", "lines"} ELSE {})
    \cup (IF HasCol(d, <<"time_slot">>)
          THEN {"time_slots", "time_slot_list"} ELSE {})
    \cup (IF HasCol(d, <<"direction">>) THEN {"direction_types"} ELSE {})
    \cup (IF HasCol(d, <<"day_type">>) THEN {"day_types"} ELSE {})
    \cup (IF HasCol(d, <<"congestion">>)
          THEN {"congestion_stats", "zero_ratio", "outliers"} ELSE {})

\* The report validate_data returns.  A key that is absent from ReportKeys
\* is absent from the report (its field here holds a filler).  Sorted lists
\* are given as the set of their elements, std by its square, and
\* null_count by column position.
validate_data(d) ==
    LET has(c)   == HasCol(d, c)
        uniq(c)  == IF has(c) THEN Unique(d, c) ELSE {}
        nuniq(c) == IF has(c) THEN NUnique(d, c) ELSE 0
        cells    == IF has(<<"congestion">>)
                    THEN Column(d, <<"congestion">>) ELSE <<>>
        vs       == NonMissing(cells)
        nulls(j) == Cardinality({r \in DOMAIN d.rows : IsNaN(d.rows[r][j])})
    IN  [total_rows      |-> Len(d.rows),
         total_columns   |-> Len(d.cols),
         columns         |-> d.cols,
         keys            |-> ReportKeys(d),
         unique_stations |-> nuniq(<<"station_name">>),
         unique_lines    |-> nuniq(<<"line">>),
         lines           |-> uniq(<<"line">>),
         time_slots      |-> nuniq(<<"time_slot">>),
         time_slot_list  |-> uniq(<<"time_slot">>),
         direction_types |-> uniq(<<"direction">>),
         day_types       |-> uniq(<<"day_type">>),
         null_count      |-> [j \in {j0 \in DOMAIN d.cols : nulls(j0) > 0}
                                 |-> nulls(j)],
         congestion_stats |-> [count  |-> Len(vs),
                               mean   |-> Mean(vs),
                               std2   |-> Var(vs),
                               min    |-> MinOf(vs),
                               max    |-> MaxOf(vs),
                               median |-> Median(vs)],
         zero_ratio      |-> ZeroRatio(Cardinality({i \in DOMAIN vs : vs[i] = 0}),
                                       Len(vs)).val,
         outliers        |-> [negative  |-> Cardinality({i \in DOMAIN vs : vs[i] < 0}),
                              above_200 |-> Cardinality({i \in DOMAIN vs : vs[i] > 200})]]

---------------------------------------------------------------------------
(* metrics.py: classifier *)

\* CONGESTION_LEVELS in dictionary order; inf marks an unbounded bucket.
\* The labels: yeoyu (light), botong (moderate), honjap (congested),
\* maeu_honjap (very congested).
CONGESTION_LEVELS ==
    << [level |-> "yeoyu",       min_val |-> 0,  max_val |-> 30, inf |-> FALSE],
       [level |-> "botong",      min_val |-> 30, max_val |-> 60, inf |-> FALSE],
       [level |-> "honjap",      min_val |-> 60, max_val |-> 90, inf |-> FALSE],
       [level |-> "maeu_honjap", min_val |-> 90, max_val |-> 0,  inf |-> TRUE] >>

\* min_val < congestion <= max_val: the boundary in the lower bucket.
InBucketUpperInclusive(q, b) ==
    /\ ~q.nan
    /\ b.min_val * q.den < q.num
    /\ (b.inf \/ q.num <= b.max_val * q.den)

\* min_val <= congestion < max_val; every comparison with NaN is false.
InBucket(q, b) ==
    /\ ~q.nan
    /\ b.min_val * q.den <= q.num
    /\ (b.inf \/ q.num < b.max_val * q.den)

get_congestion_level(q) ==
    IF \E i \in DOMAIN CONGESTION_LEVELS : InBucket(q, CONGESTION_LEVELS[i])
    THEN CONGESTION_LEVELS[CHOOSE i \in DOMAIN CONGESTION_LEVELS :
            /\ InBucket(q, CONGESTION_LEVELS[i])
            /\ \A j \in 1..(i - 1) : ~InBucket(q, CONGESTION_LEVELS[j])].level
    ELSE "maeu_honjap"

---------------------------------------------------------------------------
(* metrics.py: grouping *)

\* The tokens in code-point order (the Korean ones last, by first character).
TokOrder ==
    <<" ", "-", "0", "1", "2", "3", "4", "5", "6", "7", "8", "9", ":",
      "A", "B", "L", "S", "U", "W", "a", "n", "x",
      "day_type", "direction", "line", "station_code", "station_name",
      "bun", "sanghagubun", "si", "yeokbeonho", "yoilgubun", "chulbalyeok",
      "hoseon">>

TokRank(c) == CHOOSE i \in DOMAIN TokOrder : TokOrder[i] = c

RECURSIVE SeqLess(_, _)
SeqLess(a, b) ==
    IF a = <<>> THEN b # <<>>
    ELSE IF b = <<>> THEN FALSE
    ELSE IF Head(a) = Head(b) THEN SeqLess(Tail(a), Tail(b))
    ELSE TokRank(Head(a)) < TokRank(Head(b))

\* The order of two key cells: numbers by value, text by code points.
CellLess(a, b) ==
    IF a.t = "num" /\ b.t = "num" THEN a.n < b.n
    ELSE IF a.t = "str" /\ b.t = "str" THEN SeqLess(a.s, b.s)
    ELSE a.t = "num" /\ b.t = "str"

RECURSIVE KeyLess(_, _)
KeyLess(a, b) ==
    IF a = <<>> \/ b = <<>> THEN FALSE
    ELSE IF Head(a) = Head(b) THEN KeyLess(Tail(a), Tail(b))
    ELSE CellLess(Head(a), Head(b))

RECURSIVE SortKeys(_)
SortKeys(S) ==
    IF S = {} THEN <<>>
    ELSE LET m == CHOOSE x \in S : \A y \in S \ {x} : KeyLess(x, y)
         IN  <<m>> \o SortKeys(S \ {m})

KeyOfRow(d, r, kc) == [q \in DOMAIN kc |-> At(d, r, kc[q])]

\* groupby(kc): the group keys in sorted order; a row with a missing key
\* cell belongs to no group (dropna=True).
GroupKeys(d, kc) ==
    SortKeys({KeyOfRow(d, r, kc) :
                r \in {r0 \in DOMAIN d.rows :
                         \A q \in DOMAIN kc : ~IsNaN(At(d, r0, kc[q]))}})

\* The rows of the group with the given key, in table order.
GroupRows(d, kc, key) ==
    SelectSeq([r \in DOMAIN d.rows |-> r], LAMBDA r : KeyOfRow(d, r, kc) = key)

\* The congestion cells of the group, in table order.
GroupCells(d, kc, key) ==
    LET rs == GroupRows(d, kc, key)
    IN  [i \in DOMAIN rs |-> At(d, rs[i], <<"congestion">>)]

\* groupby raises KeyError when a key column (or congestion) is absent.
MissingColumn(d, kc) ==
    \/ \E q \in DOMAIN kc : ~HasCol(d, kc[q])
    \/ ~HasCol(d, <<"congestion">>)

Raised(kind) == [raised |-> kind, rows |-> <<>>]
Returned(rows) == [raised |-> "none", rows |-> rows]

---------------------------------------------------------------------------
(* metrics.py: the five aggregates *)

LINE_TIME_KEY == << <<"day_type">>, <<"line">>, <<"time_slot">> >>
STATION_TIME_KEY == << <<"day_type">>, <<"line">>, <<"station_name">>,
                       <<"direction">>, <<"time_slot">> >>
STATION_KEY == << <<"day_type">>, <<"line">>, <<"station_name">>,
                  <<"direction">> >>

\* std_congestion is given by its square, the sample variance.
calc_line_time_avg(d) ==
    IF MissingColumn(d, LINE_TIME_KEY) THEN Raised("KeyError")
    ELSE LET keys == GroupKeys(d, LINE_TIME_KEY)
         IN  Returned([k \in DOMAIN keys |->
                LET vs == NonMissing(GroupCells(d, LINE_TIME_KEY, keys[k]))
                IN  [day_type         |-> keys[k][1],
                     line             |-> keys[k][2],
                     time_slot        |-> keys[k][3],
                     avg_congestion   |-> Mean(vs),
                     max_congestion   |-> MaxOf(vs),
                     min_congestion   |-> MinOf(vs),
                     std2_congestion  |-> Var(vs),
                     sample_count     |-> Len(vs),
                     congestion_level |-> get_congestion_level(Mean(vs))]])

calc_station_time_avg(d) ==
    IF MissingColumn(d, STATION_TIME_KEY) THEN Raised("KeyError")
    ELSE LET keys == GroupKeys(d, STATION_TIME_KEY)
         IN  Returned([k \in DOMAIN keys |->
                LET vs == NonMissing(GroupCells(d, STATION_TIME_KEY, keys[k]))
                IN  [day_type         |-> keys[k][1],
                     line             |-> keys[k][2],
                     station_name     |-> keys[k][3],
                     direction        |-> keys[k][4],
                     time_slot        |-> keys[k][5],
                     avg_congestion   |-> Mean(vs),
                     max_congestion   |-> MaxOf(vs),
                     min_congestion   |-> MinOf(vs),
                     congestion_level |-> get_congestion_level(Mean(vs))]])

\* The mean congestion per (day_type, line, station_name, direction).
StationAvg(d) ==
    LET keys == GroupKeys(d, STATION_KEY)
    IN  [k \in DOMAIN keys |->
            [day_type       |-> keys[k][1],
             line           |-> keys[k][2],
             station_name   |-> keys[k][3],
             direction      |-> keys[k][4],
             avg_congestion |-> Mean(NonMissing(GroupCells(d, STATION_KEY, keys[k])))]]

\* station_avg['day_type'].unique(): in order of first appearance.
DayTypesOf(sa) ==
    LET firsts == SelectSeq([i \in DOMAIN sa |-> i],
                    LAMBDA i : \A j \in 1..(i - 1) : sa[j].day_type # sa[i].day_type)
    IN  [p \in DOMAIN firsts |-> sa[firsts[p]].day_type]

\* The selection with keep='last': of equal means the later row first.
SelectNLast(rows, n, largest) ==
    LET before(j, i) ==
            \/ ~rows[j].avg_congestion.nan /\ rows[i].avg_congestion.nan
            \/ /\ rows[j].avg_congestion.nan = rows[i].avg_congestion.nan
               /\ \/ (IF largest
                      THEN QLess(rows[i].avg_congestion, rows[j].avg_congestion)
                      ELSE QLess(rows[j].avg_congestion, rows[i].avg_congestion))
                  \/ /\ (rows[i].avg_congestion.nan
                         \/ QEq(rows[i].avg_congestion, rows[j].avg_congestion))
                     /\ j > i
        pos(i) == Cardinality({j \in DOMAIN rows : before(j, i)}) + 1
        k == IF n < Len(rows) THEN n ELSE Len(rows)
    IN  [p \in 1..k |-> rows[CHOOSE i \in DOMAIN rows : pos(i) = p]]

\* nlargest / nsmallest(n, 'avg_congestion') with keep='first': the rows
\* with a mean in the wanted order, equal means in table order, the rows
\* with a NaN mean after them; the first n of that.
SelectN(rows, n, largest) ==
    LET before(j, i) ==
            \/ ~rows[j].avg_congestion.nan /\ rows[i].avg_congestion.nan
            \/ /\ rows[j].avg_congestion.nan = rows[i].avg_congestion.nan
               /\ \/ (IF largest
                      THEN QLess(rows[i].avg_congestion, rows[j].avg_congestion)
                      ELSE QLess(rows[j].avg_congestion, rows[i].avg_congestion))
                  \/ /\ (rows[i].avg_congestion.nan
                         \/ QEq(rows[i].avg_congestion, rows[j].avg_congestion))
                     /\ j < i
        pos(i) == Cardinality({j \in DOMAIN rows : before(j, i)}) + 1
        k == IF n < Len(rows) THEN n ELSE Len(rows)
    IN  [p \in 1..k |-> rows[CHOOSE i \in DOMAIN rows : pos(i) = p]]

\* One day_type partition's top rows with rank and rank_type added.
Ranked(top, rank_type) ==
    [p \in DOMAIN top |->
        [day_type       |-> top[p].day_type,
         line           |-> top[p].line,
         station_name   |-> top[p].station_name,
         direction      |-> top[p].direction,
         avg_congestion |-> top[p].avg_congestion,
         rank           |-> p,
         rank_type      |-> rank_type]]

\* The loop over the day types and pd.concat(top_n_list), which raises
\* ValueError ("No objects to concatenate") on an empty list.
TopNOf(sa, n, largest, rank_type) ==
    LET days == DayTypesOf(sa)
        top_n_list ==
            [p \in DOMAIN days |->
                Ranked(SelectN(SelectSeq(sa, LAMBDA row : row.day_type = days[p]),
                               n, largest),
                       rank_type)]
    IN  IF top_n_list = <<>> THEN Raised("ValueError")
        ELSE Returned(Flatten(top_n_list))

calc_top_n_congested(d, n) ==
    IF MissingColumn(d, STATION_KEY) THEN Raised("KeyError")
    ELSE TopNOf(StationAvg(d), n, TRUE, "honjap")

\* The n smallest without the exclusion of line 181.
calc_top_n_least_congested_unfiltered(d, n) ==
    IF MissingColumn(d, STATION_KEY) THEN Raised("KeyError")
    ELSE TopNOf(StationAvg(d), n, FALSE, "yeoyu")

\* station_avg[station_avg['avg_congestion'] > 0] drops the zero and the
\* NaN means.
calc_top_n_least_congested(d, n) ==
    IF MissingColumn(d, STATION_KEY) THEN Raised("KeyError")
    ELSE TopNOf(SelectSeq(StationAvg(d),
                          LAMBDA row : QLess(Q(0, 1), row.avg_congestion)),
                n, FALSE, "yeoyu")

\* The rows of a group with congestion >= 0: zeros kept.
PositiveOrZero(d, rs) ==
    SelectSeq(rs, LAMBDA r : At(d, r, <<"congestion">>).t = "num"
                             /\ At(d, r, <<"congestion">>).n >= 0)

\* The rows of a group with congestion > 0.
Positive(d, rs) ==
    SelectSeq(rs, LAMBDA r : At(d, r, <<"congestion">>).t = "num"
                             /\ At(d, r, <<"congestion">>).n > 0)

\* idxmax() / idxmin(): the first row holding the extreme value.
IdxMax(d, rs) ==
    rs[CHOOSE i \in DOMAIN rs :
        /\ \A j \in DOMAIN rs :
              At(d, rs[j], <<"congestion">>).n <= At(d, rs[i], <<"congestion">>).n
        /\ \A j \in 1..(i - 1) :
              At(d, rs[j], <<"congestion">>).n < At(d, rs[i], <<"congestion">>).n]

\* The first row, whatever it holds.
IdxMinFirst(d, rs) == rs[1]

IdxMin(d, rs) ==
    rs[CHOOSE i \in DOMAIN rs :
        /\ \A j \in DOMAIN rs :
              At(d, rs[j], <<"congestion">>).n >= At(d, rs[i], <<"congestion">>).n
        /\ \A j \in 1..(i - 1) :
              At(d, rs[j], <<"congestion">>).n > At(d, rs[i], <<"congestion">>).n]

\* The population variance (divisor n): what ddof=0 would compute.
GroupVariancePop(vs) == VarDdof(vs, 0)

\* The variance of a group's readings: group['congestion'].var().
GroupVariance(vs) == Var(vs)

\* The readings > 0 of a group only: what group_filtered['congestion']
\* would hand to mean() and var().
GroupReadingsFiltered(d, key) ==
    LET vs == NonMissing(GroupCells(d, STATION_KEY, key))
    IN  SelectSeq(vs, LAMBDA v : v > 0)

\* group['congestion'] as mean() and var() see it (lines 243-244): every
\* non-missing reading of the group, the zeros among them.
GroupReadings(d, key) == NonMissing(GroupCells(d, STATION_KEY, key))

calc_peak_times(d) ==
    IF MissingColumn(d, STATION_KEY) THEN Raised("KeyError")
    ELSE LET keys == GroupKeys(d, STATION_KEY)
             kept == SelectSeq(keys,
                        LAMBDA key : Positive(d, GroupRows(d, STATION_KEY, key)) # <<>>)
         IN  Returned([k \in DOMAIN kept |->
                LET group    == GroupRows(d, STATION_KEY, kept[k])
                    filtered == Positive(d, group)
                    peak_row == IdxMax(d, filtered)
                    least_row == IdxMin(d, filtered)
                    vs       == GroupReadings(d, kept[k])
                IN  [day_type         |-> kept[k][1],
                     line             |-> kept[k][2],
                     station_name     |-> kept[k][3],
                     direction        |-> kept[k][4],
                     peak_time        |-> At(d, peak_row, <<"time_slot">>),
                     peak_congestion  |-> At(d, peak_row, <<"congestion">>),
                     least_time       |-> At(d, least_row, <<"time_slot">>),
                     least_congestion |-> At(d, least_row, <<"congestion">>),
                     avg_congestion   |-> Mean(vs),
                     variance         |-> GroupVariance(vs)]])

---------------------------------------------------------------------------
(* Inputs of the column standardizer: raw header names *)

MaxHourDigits == 2
MaxMinDigits == 2

HdrDigits == {"0", "1", "5"}

DigitStrs(n) == UNION {[1..k -> HdrDigits] : k \in 1..n}

\* <digits> si <digits> bun, optionally with text before or after it.
TimeLikeHeaders ==
    {pre \o h \o <<"si">> \o m \o <<"bun">> \o post :
        pre \in {<<>>, <<" ">>},
        h \in DigitStrs(MaxHourDigits),
        m \in DigitStrs(MaxMinDigits),
        post \in {<<>>, <<" ">>, <<"x">>}}

LabelLikeHeaders ==
    {pre \o l \o post :
        pre \in {<<>>, <<" ">>}, l \in DOMAIN COLUMN_MAPPING,
        post \in {<<>>, <<" ">>}}

OtherHeaders ==
    { <<"line">>, <<"day_type">>, <<"x">>,
      <<"0", "5", ":", "1", "0">>,
      <<"5", "si", "1", "0">>, <<"si", "1", "0", "bun">>,
      <<"5", "1", "0", "bun">>, <<"5", "si", "bun">>,
      <<"x", "5", "si", "1", "0", "bun">> }

RawHeaders == TimeLikeHeaders \cup LabelLikeHeaders \cup OtherHeaders

\* The headers a second column is drawn from.
SecondHeaders ==
    { <<"hoseon">>, <<"line">>, <<"0", "5", ":", "1", "0">>,
      <<"5", "si", "1", "0", "bun">>, <<"0", "5", "si", "1", "0", "bun">>,
      <<"chulbalyeok">> }

\* A header row of one or two pairwise distinct raw names, in either order;
\* b = <<>> stands for no second column.
HeaderRow(a, b, swap) ==
    IF b = <<>> THEN <<a>> ELSE IF swap THEN <<b, a>> ELSE <<a, b>>

\* No report produced yet.
NoReport == [keys |-> {}]
NoResults == <<>>
\* No source file: the operation is applied to a table directly.
NoInput == [exists |-> FALSE, reads |-> ReadsOf({}, TRUE), table |-> EmptyTable]

InitCols ==
    /\ pc = "raw"
    /\ \E a \in RawHeaders, b \in SecondHeaders \cup {<<>>}, swap \in BOOLEAN :
          /\ a # b
          /\ raw = [cols |-> HeaderRow(a, b, swap), rows |-> <<>>]
    /\ input_csv = NoInput
    /\ load = NoLoad
    /\ levels = <<>>
    /\ df = EmptyTable
    /\ df_long = EmptyTable
    /\ report = NoReport
    /\ results = NoResults
    /\ err = "none"
    /\ files = <<>>
    /\ exit_code = -1

\* df = standardize_columns(df)
StandardizeCols ==
    /\ pc = "raw"
    /\ df' = standardize_columns(raw)
    /\ pc' = "standardized"
    /\ UNCHANGED <<input_csv, load, levels, raw, df_long, report, results, err, files, exit_code>>

NextCols == StandardizeCols

SpecCols == InitCols /\ [][NextCols]_vars

---------------------------------------------------------------------------
(* Inputs of the aggregator: cleansed long tables *)

MaxLongRows == 2

LONG_COLS == << <<"day_type">>, <<"line">>, <<"station_code">>,
                <<"station_name">>, <<"direction">>, <<"time_slot">>,
                <<"congestion">> >>

T0530 == <<"0", "5", ":", "3", "0">>
T0600 == <<"0", "6", ":", "0", "0">>

\* The cells a cleansed long table may hold, by column: congestion is
\* missing or a number >= 0.
LongCells(c) ==
    CASE c = <<"day_type">>     -> {Str(<<"W">>), Str(<<"S">>)}
      [] c = <<"line">>         -> {Str(<<"L">>)}
      [] c = <<"station_code">> -> {Num(1)}
      [] c = <<"station_name">> -> {Str(<<"A">>), Str(<<"B">>)}
      [] c = <<"direction">>    -> {Str(<<"U">>)}
      [] c = <<"time_slot">>    -> {Str(T0530), Str(T0600)}
      [] c = <<"congestion">>   -> {NaN, Num(0), Num(10), Num(40)}

LongDom == [c \in Range(LONG_COLS) |-> LongCells(c)]

\* The values of n the ranking is applied with: a cut, and the default.
TopNs == {1, 10}

InitAgg ==
    /\ pc = "cleansed"
    /\ \E rows \in SeqsUpTo(RowSet(LONG_COLS, LongDom), MaxLongRows) :
          df_long = [cols |-> LONG_COLS, rows |-> rows]
    /\ input_csv = NoInput
    /\ load = NoLoad
    /\ levels = <<>>
    /\ raw = EmptyTable
    /\ df = EmptyTable
    /\ report = NoReport
    /\ results = NoResults
    /\ err = "none"
    /\ files = <<>>
    /\ exit_code = -1

\* One aggregate applied to the long table: its table is kept under its
\* name, or the exception it raised.
Apply(name, outcome) ==
    /\ pc = "cleansed"
    /\ pc' = "aggregated"
    /\ err' = outcome.raised
    /\ results' = <<[name |-> name, rows |-> outcome.rows]>>
    /\ UNCHANGED <<input_csv, load, levels, raw, df, df_long, report, files, exit_code>>

AggLineTimeAvg == Apply("line_time_avg", calc_line_time_avg(df_long))

AggStationTimeAvg == Apply("station_time_avg", calc_station_time_avg(df_long))

\* A ranking applied with the parameter n, which is kept beside its table.
ApplyN(name, n, outcome) ==
    /\ pc = "cleansed"
    /\ pc' = "aggregated"
    /\ err' = outcome.raised
    /\ results' = <<[name |-> name, n |-> n, rows |-> outcome.rows]>>
    /\ UNCHANGED <<input_csv, load, levels, raw, df, df_long, report, files, exit_code>>

AggTopCongested ==
    \E n \in TopNs :
        ApplyN("top_congested", n, calc_top_n_congested(df_long, n))

AggTopLeastCongested ==
    \E n \in TopNs :
        ApplyN("top_least_congested", n, calc_top_n_least_congested(df_long, n))

AggPeakTimes == Apply("peak_times", calc_peak_times(df_long))

NextAgg ==
    \/ AggLineTimeAvg
    \/ AggStationTimeAvg
    \/ AggTopCongested
    \/ AggTopLeastCongested
    \/ AggPeakTimes

SpecAgg == InitAgg /\ [][NextAgg]_vars

---------------------------------------------------------------------------
(* Claims about the column standardizer (SpecCols) *)

\* col is exactly <digits> si <digits> bun, read independently of the regex.
WholeTimeHeader(col) ==
    \E k \in 2..(Len(col) - 2) :
        /\ col[k] = "si"
        /\ col[Len(col)] = "bun"
        /\ \A i \in 1..(k - 1) : IsDigit(col[i])
        /\ \A i \in (k + 1)..(Len(col) - 1) : IsDigit(col[i])

SiPos(col) == CHOOSE k \in DOMAIN col : col[k] = "si"
HourOf(col) == DigitsToInt(SubSeq(col, 1, SiPos(col) - 1))
MinuteOf(col) == DigitsToInt(SubSeq(col, SiPos(col) + 1, Len(col) - 1))

TwoDigits(v) == <<DigitToks[(v \div 10) + 1], DigitToks[(v % 10) + 1]>>

\* C4 (as stated): pairwise distinct raw header names are renamed to
\* pairwise distinct column names.
C4_RenameConflictFree ==
    pc = "standardized" /\ IsInjective(raw.cols) => IsInjective(df.cols)

\* C5 (as stated): a header that is neither an identifier label nor, as a
\* whole string, <digits>si<digits>bun keeps its name.
C5_NonMatchingUnchanged ==
    pc = "standardized" =>
        \A i \in DOMAIN raw.cols :
            (raw.cols[i] \notin DOMAIN COLUMN_MAPPING
             /\ ~WholeTimeHeader(raw.cols[i]))
            => df.cols[i] = raw.cols[i]

---------------------------------------------------------------------------
(* Inputs of the reshaper: raw wide tables *)

MaxRows == 2

H530 == <<"5", "si", "3", "0", "bun">>
H600 == <<"6", "si", "0", "0", "bun">>

\* Header rows: the full schema; another column order without the station
\* code; no time-slot column; an unrecognized header in place of the line
\* label; time-slot columns only.
ReshapeLayouts ==
    { << <<"yoilgubun">>, <<"hoseon">>, <<"yeokbeonho">>, <<"chulbalyeok">>,
         <<"sanghagubun">>, H530, H600 >>,
      << H530, <<"hoseon">>, <<"yoilgubun">>, <<"chulbalyeok">>,
         <<"sanghagubun">> >>,
      << <<"yoilgubun">>, <<"hoseon">>, <<"yeokbeonho">>, <<"chulbalyeok">>,
         <<"sanghagubun">> >>,
      << <<"yoilgubun">>, <<"x">>, <<"chulbalyeok">>, <<"sanghagubun">>,
         H530 >>,
      << H530, H600 >> }

\* The cells a raw column may hold, by its header.
ReshapeCells(h) ==
    CASE h = <<"yoilgubun">>   -> {Str(<<"W">>)}
      [] h = <<"hoseon">>      -> {Str(<<"L">>)}
      [] h = <<"yeokbeonho">>  -> {Num(1), Num(2)}
      [] h = <<"chulbalyeok">> -> {Str(<<"A">>), Str(<<"B">>)}
      [] h = <<"sanghagubun">> -> {Str(<<"U">>)}
      [] h = <<"x">>           -> {Str(<<"L">>)}
      [] OTHER                 -> {Num(10), NaN}

ReshapeDom(layout) == [h \in Range(layout) |-> ReshapeCells(h)]

InitReshape ==
    /\ pc = "raw"
    /\ \E layout \in ReshapeLayouts :
         \E rows \in SeqsUpTo(RowSet(layout, ReshapeDom(layout)), MaxRows) :
            raw = [cols |-> layout, rows |-> rows]
    /\ input_csv = NoInput
    /\ load = NoLoad
    /\ levels = <<>>
    /\ df = EmptyTable
    /\ df_long = EmptyTable
    /\ report = NoReport
    /\ results = NoResults
    /\ err = "none"
    /\ files = <<>>
    /\ exit_code = -1

\* df_long = wide_to_long(df)
Reshape ==
    /\ pc = "standardized"
    /\ df_long' = wide_to_long(df)
    /\ pc' = "long"
    /\ UNCHANGED <<input_csv, load, levels, raw, df, report, results, err, files, exit_code>>

NextReshape == StandardizeCols \/ Reshape

SpecReshape == InitReshape /\ [][NextReshape]_vars

---------------------------------------------------------------------------
(* Claims about the reshaper (SpecReshape) *)

KEY4 == << <<"day_type">>, <<"line">>, <<"station_name">>, <<"direction">> >>

\* The values of row r of table d under the columns of KEY4 that d has.
Key4Of(d, r) ==
    LET ks == SelectSeq(KEY4, LAMBDA c : HasCol(d, c))
    IN  [q \in DOMAIN ks |-> d.rows[r][ColIdx(d, ks[q])]]

\* The values of row r of table d under all identifier columns d has.
IdTupleOf(d, r) ==
    LET ks == SelectSeq(ID_COLS, LAMBDA c : HasCol(d, c))
    IN  [q \in DOMAIN ks |-> d.rows[r][ColIdx(d, ks[q])]]

CellOf(d, r, c) == d.rows[r][ColIdx(d, c)]

\* The positions of the wide table's columns that are not identifiers.
ValuePositions(d) == {j \in DOMAIN d.cols : ~IsIdCol(d.cols[j])}

\* The wide cells (row, column position) a long record agrees with: same
\* identifier tuple, the column's name as time_slot, the cell as congestion.
SourceCells(k) ==
    {ij \in (DOMAIN df.rows) \X ValuePositions(df) :
        /\ IdTupleOf(df, ij[1]) = IdTupleOf(df_long, k)
        /\ CellOf(df_long, k, <<"time_slot">>) = Str(df.cols[ij[2]])
        /\ CellOf(df_long, k, <<"congestion">>) = df.rows[ij[1]][ij[2]]}

\* The long records with the content of long record k.
SameRecords(k) == {k2 \in DOMAIN df_long.rows : df_long.rows[k2] = df_long.rows[k]}

\* The long records with the identifier tuple and time_slot of record k.
SamePairs(k) ==
    {k2 \in DOMAIN df_long.rows :
        /\ IdTupleOf(df_long, k2) = IdTupleOf(df_long, k)
        /\ CellOf(df_long, k2, <<"time_slot">>) = CellOf(df_long, k, <<"time_slot">>)}

\* The wide cells with the identifier tuple and column name of long record k.
PairCells(k) ==
    {ij \in (DOMAIN df.rows) \X ValuePositions(df) :
        /\ IdTupleOf(df, ij[1]) = IdTupleOf(df_long, k)
        /\ CellOf(df_long, k, <<"time_slot">>) = Str(df.cols[ij[2]])}

\* C7 (as stated): every (identifier tuple, time_slot) pair of the long
\* table belongs to exactly one cell of the wide table and to exactly one
\* long record, whose congestion is that cell.
C7_OneRecordPerKey ==
    pc = "long" =>
        \A k \in DOMAIN df_long.rows :
            /\ Cardinality(PairCells(k)) = 1
            /\ Cardinality(SamePairs(k)) = 1
            /\ \A ij \in PairCells(k) :
                  CellOf(df_long, k, <<"congestion">>) = df.rows[ij[1]][ij[2]]

\* C7 (amended): the long records are the wide cells, one for one: each
\* record content occurs as often in the long table as there are wide cells
\* (row, value column) with that identifier tuple, column name and value,
\* and every wide cell occurs.  When the wide rows have pairwise distinct
\* (day_type, line, station_name, direction) tuples, no two long records
\* share (day_type, line, station_name, direction, time_slot).
C7_LosslessPerCell ==
    pc = "long" =>
        /\ \A k \in DOMAIN df_long.rows :
              /\ SourceCells(k) # {}
              /\ Cardinality(SameRecords(k)) = Cardinality(SourceCells(k))
        /\ \A ij \in (DOMAIN df.rows) \X ValuePositions(df) :
              \E k \in DOMAIN df_long.rows : ij \in SourceCells(k)
        /\ (\A r1, r2 \in DOMAIN df.rows :
                Key4Of(df, r1) = Key4Of(df, r2) => r1 = r2)
           => \A k1, k2 \in DOMAIN df_long.rows :
                 (/\ Key4Of(df_long, k1) = Key4Of(df_long, k2)
                  /\ CellOf(df_long, k1, <<"time_slot">>)
                       = CellOf(df_long, k2, <<"time_slot">>))
                 => k1 = k2

\* C7 witness: two wide rows with the same identifier tuple, a missing and
\* a present value, reshaped over two value columns.
C7_Witness ==
    /\ pc = "long"
    /\ Len(df.rows) = 2
    /\ IdTupleOf(df, 1) = IdTupleOf(df, 2)
    /\ Cardinality(ValuePositions(df)) = 2
    /\ \E k \in DOMAIN df_long.rows : IsNaN(CellOf(df_long, k, <<"congestion">>))
    /\ \E k \in DOMAIN df_long.rows : ~IsNaN(CellOf(df_long, k, <<"congestion">>))
    /\ Len(df_long.rows) = 4

\* C8: the long table has R * T rows for a wide table of R rows and T
\* non-identifier columns, R of them under each such column's name as
\* time_slot, and its columns are the identifier columns present followed
\* by time_slot and congestion.
C8_RowCountMultiplicative ==
    pc = "long" =>
        /\ Len(df_long.rows) = Len(df.rows) * Cardinality(ValuePositions(df))
        /\ \A j \in ValuePositions(df) :
              Cardinality({k \in DOMAIN df_long.rows :
                              CellOf(df_long, k, <<"time_slot">>) = Str(df.cols[j])})
                 = Len(df.rows)
        /\ \A k \in DOMAIN df_long.rows :
              \E j \in ValuePositions(df) :
                  CellOf(df_long, k, <<"time_slot">>) = Str(df.cols[j])
        /\ Len(df_long.cols) = Len(df.cols) - Cardinality(ValuePositions(df)) + 2

\* C8 witness: two identical wide rows under two value columns give four
\* long rows.
C8_Witness ==
    /\ pc = "long"
    /\ Len(df.rows) = 2
    /\ df.rows[1] = df.rows[2]
    /\ Cardinality(ValuePositions(df)) = 2
    /\ Len(df_long.rows) = 4

\* C8 also covers a table without value columns.
C8_WitnessNoValueColumn ==
    /\ pc = "long"
    /\ Len(df.rows) = 2
    /\ ValuePositions(df) = {}
    /\ Len(df_long.rows) = 0

---------------------------------------------------------------------------
(* run_pipeline.py, transform.run_pipeline, metrics.run_aggregation_pipeline:
   one run of the program *)

\* n=10 of the two rankings in run_aggregation_pipeline.
TOP_N == 10

\* Header rows of the source file: the full schema; the line label absent;
\* an unrecognized header in place of the day-type label; no time-slot
\* column; the station code absent.
PipelineLayouts ==
    { << <<"yoilgubun">>, <<"hoseon">>, <<"yeokbeonho">>, <<"chulbalyeok">>,
         <<"sanghagubun">>, H530 >>,
      << <<"yoilgubun">>, <<"yeokbeonho">>, <<"chulbalyeok">>,
         <<"sanghagubun">>, H530 >>,
      << <<"x">>, <<"hoseon">>, <<"yeokbeonho">>, <<"chulbalyeok">>,
         <<"sanghagubun">>, H530 >>,
      << <<"yoilgubun">>, <<"hoseon">>, <<"yeokbeonho">>, <<"chulbalyeok">>,
         <<"sanghagubun">> >>,
      << <<"yoilgubun">>, <<"hoseon">>, <<"chulbalyeok">>, <<"sanghagubun">>,
         H530 >> }

\* The cells of the source file, by header: a day type present or missing;
\* a reading negative, zero, ordinary, above 200, unparsable text or missing.
PipelineCells(h) ==
    CASE h = <<"yoilgubun">>   -> {Str(<<"W">>), NaN}
      [] h = <<"hoseon">>      -> {Str(<<"L">>)}
      [] h = <<"yeokbeonho">>  -> {Num(1)}
      [] h = <<"chulbalyeok">> -> {Str(<<"A">>)}
      [] h = <<"sanghagubun">> -> {Str(<<"U">>)}
      [] h = <<"x">>           -> {Str(<<"W">>)}
      [] OTHER                 -> {Num(-5), Num(0), Num(10), Num(250),
                                   Str(<<"x">>), NaN}

PipelineDom(layout) == [h \in Range(layout) |-> PipelineCells(h)]

\* What a file's bytes can be: valid cp949 or not, valid euc-kr only if
\* valid cp949 (cp949 extends euc-kr), valid utf-8 exactly if valid
\* utf-8-sig; and its text a CSV table or not.
FileKinds ==
    {ReadsOf(k \cup u, parses) :
        k \in {{}, {"cp949"}, {"cp949", "euc-kr"}},
        u \in {{}, {"utf-8-sig", "utf-8"}},
        parses \in BOOLEAN}

Init ==
    /\ pc = "start"
    /\ \/ input_csv = NoInput
       \/ \E layout \in PipelineLayouts :
            \E rows \in SeqsUpTo(RowSet(layout, PipelineDom(layout)), MaxRows) :
               input_csv = [exists |-> TRUE,
                            reads  |-> ReadsOf(Range(DEFAULT_ENCODINGS), TRUE),
                            table  |-> [cols |-> layout, rows |-> rows]]
       \/ \E kind \in FileKinds :
            input_csv = [exists |-> TRUE, reads |-> kind,
                         table  |-> [cols |-> <<H530>>, rows |-> <<>>]]
    /\ load = NoLoad
    /\ levels = <<>>
    /\ raw = EmptyTable
    /\ df = EmptyTable
    /\ df_long = EmptyTable
    /\ report = NoReport
    /\ results = NoResults
    /\ err = "none"
    /\ files = <<>>
    /\ exit_code = -1

\* An exception reaches main's handler: the error is logged, sys.exit(1).
Abort(kind) ==
    /\ err' = kind
    /\ exit_code' = 1
    /\ pc' = "exited"

\* main without lines 34-37: the run goes on to load whatever is there.
MainCheckInputSkipped ==
    /\ pc = "start"
    /\ pc' = "load"
    /\ UNCHANGED <<input_csv, load, levels, raw, df, df_long, report, results,
                   err, files, exit_code>>

\* main, lines 34-37: the input file is checked before anything runs.
MainCheckInput ==
    /\ pc = "start"
    /\ IF input_csv.exists
       THEN pc' = "load" /\ UNCHANGED <<err, exit_code>>
       ELSE Abort("none")
    /\ UNCHANGED <<input_csv, load, levels, raw, df, df_long, report, results, files>>

\* df = load_csv(input_path)
LoadCsv ==
    /\ pc = "load"
    /\ LET out == load_csv(input_csv, load.encodings)
       IN  /\ load' = [load EXCEPT !.tried = out.tried,
                                   !.encoding = out.encoding,
                                   !.message = out.message]
           /\ IF out.raised # "none"
              THEN Abort(out.raised) /\ UNCHANGED raw
              ELSE /\ raw' = out.table
                   /\ pc' = "raw"
                   /\ UNCHANGED <<err, exit_code>>
    /\ UNCHANGED <<input_csv, levels, df, df_long, report, results, files>>

\* df_long = clean_congestion_values(df_long)
CleanCongestion ==
    /\ pc = "long"
    /\ df_long' = clean_congestion_values(df_long)
    /\ pc' = "congestion_cleaned"
    /\ UNCHANGED <<input_csv, load, levels, raw, df, report, results, err, files, exit_code>>

\* df_long = clean_station_names(df_long)
CleanStationNames ==
    /\ pc = "congestion_cleaned"
    /\ df_long' = clean_station_names(df_long)
    /\ pc' = "cleansed"
    /\ UNCHANGED <<input_csv, load, levels, raw, df, report, results, err, files, exit_code>>

\* A validator handed the table as reshaped, before the cleansers.
ValidateUncleansed ==
    /\ pc = "cleansed"
    /\ IF ValidateError(wide_to_long(df)) # "none"
       THEN Abort(ValidateError(wide_to_long(df))) /\ UNCHANGED report
       ELSE /\ report' = validate_data(wide_to_long(df))
            /\ pc' = "validated"
            /\ UNCHANGED <<err, exit_code>>
    /\ UNCHANGED <<input_csv, load, levels, raw, df, df_long, results, files>>

\* report = validate_data(df_long)
Validate ==
    /\ pc = "cleansed"
    /\ IF ValidateError(df_long) # "none"
       THEN Abort(ValidateError(df_long)) /\ UNCHANGED report
       ELSE /\ report' = validate_data(df_long)
            /\ pc' = "validated"
            /\ UNCHANGED <<err, exit_code>>
    /\ UNCHANGED <<input_csv, load, levels, raw, df, df_long, results, files>>

\* How writing an artifact (mkdir, to_parquet, json.dump) can end: well,
\* or with an OSError (disk full, permission denied).
WriteOutcomes == {"none", "OSError"}

\* A writer that swallows the error and goes on without the artifact.
WriteSwallowed(name, next) ==
    \E outcome \in WriteOutcomes :
        /\ pc' = next
        /\ files' = IF outcome = "none" THEN Append(files, name) ELSE files
        /\ UNCHANGED <<err, exit_code>>

\* The artifact is written and the run goes on, or the error reaches
\* main's handler; what was written before stays.
Write(name, next) ==
    \E outcome \in WriteOutcomes :
        IF outcome = "none"
        THEN /\ files' = Append(files, name)
             /\ pc' = next
             /\ UNCHANGED <<err, exit_code>>
        ELSE Abort(outcome) /\ UNCHANGED files

\* df_long.to_parquet(output_parquet)
WriteLong ==
    /\ pc = "validated"
    /\ Write("congestion_long", "long_written")
    /\ UNCHANGED <<input_csv, load, levels, raw, df, df_long, report, results>>

\* save_report(report, output_report): phase 1 is complete.
WriteReport ==
    /\ pc = "long_written"
    /\ Write("data_quality_report", "phase1_done")
    /\ UNCHANGED <<input_csv, load, levels, raw, df, df_long, report, results>>

\* The five aggregates in the order run_aggregation_pipeline computes them.
AggregateOutcomes(d) ==
    << [name |-> "line_time_avg",       out |-> calc_line_time_avg(d)],
       [name |-> "station_time_avg",    out |-> calc_station_time_avg(d)],
       [name |-> "top_congested",       out |-> calc_top_n_congested(d, TOP_N)],
       [name |-> "top_least_congested", out |-> calc_top_n_least_congested(d, TOP_N)],
       [name |-> "peak_times",          out |-> calc_peak_times(d)] >>

\* An aggregation phase that stores each aggregate as soon as it is
\* computed: the ones before the first that raises are on disk.
AggregateEager ==
    /\ pc = "phase1_done"
    /\ LET outs == AggregateOutcomes(df_long)
           bad  == {i \in DOMAIN outs : outs[i].out.raised # "none"}
           stop == CHOOSE i \in bad : \A j \in bad : i <= j
       IN  IF bad # {}
           THEN /\ Abort(outs[stop].out.raised)
                /\ files' = files \o [i \in 1..(stop - 1) |-> outs[i].name]
                /\ UNCHANGED results
           ELSE /\ results' = [i \in DOMAIN outs |->
                                 [name |-> outs[i].name, rows |-> outs[i].out.rows]]
                /\ pc' = "computed"
                /\ UNCHANGED <<err, exit_code, files>>
    /\ UNCHANGED <<input_csv, load, levels, raw, df, df_long, report>>

\* run_aggregation_pipeline, lines 313-334: the long table is read back and
\* the five aggregates are computed; the first one that raises ends the run.
Aggregate ==
    /\ pc = "phase1_done"
    /\ LET outs == AggregateOutcomes(df_long)
           bad  == {i \in DOMAIN outs : outs[i].out.raised # "none"}
       IN  IF bad # {}
           THEN /\ Abort(outs[CHOOSE i \in bad : \A j \in bad : i <= j].out.raised)
                /\ UNCHANGED results
           ELSE /\ results' = [i \in DOMAIN outs |->
                                 [name |-> outs[i].name, rows |-> outs[i].out.rows]]
                /\ pc' = "computed"
                /\ UNCHANGED <<err, exit_code>>
    /\ UNCHANGED <<input_csv, load, levels, raw, df, df_long, report, files>>

\* How far the loop over file_mapping has come.
AggregatesWritten ==
    Cardinality({i \in DOMAIN files :
        \E k \in DOMAIN results : results[k].name = files[i]})

\* run_aggregation_pipeline, lines 338-353: the next aggregate file, in the
\* order of file_mapping.
WriteAggregate ==
    /\ pc = "computed"
    /\ AggregatesWritten < Len(results)
    /\ Write(results[AggregatesWritten + 1].name, "computed")
    /\ UNCHANGED <<input_csv, load, levels, raw, df, df_long, report, results>>

\* main returns: exit status 0.
Finish ==
    /\ pc = "computed"
    /\ AggregatesWritten = Len(results)
    /\ exit_code' = 0
    /\ pc' = "exited"
    /\ UNCHANGED <<input_csv, load, levels, raw, df, df_long, report, results, err, files>>

Next ==
    \/ MainCheckInput
    \/ LoadCsv
    \/ StandardizeCols
    \/ Reshape
    \/ CleanCongestion
    \/ CleanStationNames
    \/ Validate
    \/ WriteLong
    \/ WriteReport
    \/ Aggregate
    \/ WriteAggregate
    \/ Finish

Spec == Init /\ [][Next]_vars

---------------------------------------------------------------------------
(* Claims about a whole run (Spec) *)

\* Positions of the source headers that COLUMN_MAPPING recognizes.
SourceIdHeaders(t) == {i \in DOMAIN t.cols : t.cols[i] \in DOMAIN COLUMN_MAPPING}

\* Positions of the source headers that are time-slot headers.
SourceTimeHeaders(t) == {i \in DOMAIN t.cols : WholeTimeHeader(t.cols[i])}

\* The five identifier headers, and time-slot headers for all the rest.
RegularSchema(t) ==
    /\ Cardinality(SourceIdHeaders(t)) = 5
    /\ SourceTimeHeaders(t) # {}
    /\ SourceIdHeaders(t) \cup SourceTimeHeaders(t) = DOMAIN t.cols

\* Fewer than five identifier headers recognized, or no column left once
\* the identifiers are removed.
SchemaDrift(t) ==
    \/ Cardinality(SourceIdHeaders(t)) < 5
    \/ SourceIdHeaders(t) = DOMAIN t.cols

\* At least one row, no identifier missing, every reading under a
\* time-slot header a number in (0, 200].
RegularCells(t) ==
    /\ t.rows # <<>>
    /\ \A r \in DOMAIN t.rows :
         /\ \A i \in SourceIdHeaders(t) : ~IsNaN(t.rows[r][i])
         /\ \A i \in SourceTimeHeaders(t) :
               /\ t.rows[r][i].t = "num"
               /\ t.rows[r][i].n > 0
               /\ t.rows[r][i].n <= 200

RunSucceeded == pc = "exited" /\ exit_code = 0 /\ err = "none"

\* C2: a run over a source table with the regular schema and at least one
\* row, every write going well, ends with exit status 0 and no raised
\* error, whatever its cells hold (negative, above 200, unparsable text,
\* missing).
C2_CellIrregularityNeverFatal ==
    (/\ pc = "exited"
     /\ input_csv.exists
     /\ err # "OSError"
     /\ RegularSchema(input_csv.table)
     /\ input_csv.table.rows # <<>>) => RunSucceeded

\* C3: a run over a source table with schema drift (an identifier header
\* absent or unrecognized, or no time-slot column) and otherwise regular
\* cells, every write going well, ends with exit status 0 and no raised
\* error.
C3_SchemaDriftNotFatal ==
    (/\ pc = "exited"
     /\ input_csv.exists
     /\ err # "OSError"
     /\ SchemaDrift(input_csv.table)
     /\ RegularCells(input_csv.table)) => RunSucceeded

\* validate_data has been called on the cleansed table df_long.
ValidateRan ==
    /\ pc \in {"validated", "long_written", "phase1_done", "computed", "exited"}
    /\ input_csv.exists

\* The cleansed table has a congestion column without a non-missing value.
NoCongestionData ==
    /\ HasCol(df_long, <<"congestion">>)
    /\ \A r \in DOMAIN df_long.rows : IsNaN(At(df_long, r, <<"congestion">>))

\* No identifier cell of the cleansed table is missing.
NoMissingId ==
    \A r \in DOMAIN df_long.rows : \A i \in DOMAIN df_long.cols :
        IsIdCol(df_long.cols[i]) => ~IsNaN(df_long.rows[r][i])

\* C9: when validate_data has run on a cleansed table with a congestion
\* column and no non-missing congestion value (all missing, or zero rows),
\* it has not raised ZeroDivisionError, and (no identifier cell being
\* missing) it has returned a report whose zero_ratio key holds the
\* undefined value NaN over a count of 0.
C9_NoDataNeverFailsReport ==
    (ValidateRan /\ NoCongestionData) =>
        /\ err # "ZeroDivisionError"
        /\ NoMissingId =>
              /\ report # NoReport
              /\ "zero_ratio" \in report.keys
              /\ report.zero_ratio.nan
              /\ report.congestion_stats.count = 0

\* C9 met with rows whose readings are all missing.
C9_Witness ==
    /\ ValidateRan /\ NoCongestionData /\ NoMissingId
    /\ df_long.rows # <<>>
    /\ report # NoReport
    /\ report.zero_ratio.nan

\* C9 met with zero rows.
C9_WitnessZeroRows ==
    /\ ValidateRan /\ NoCongestionData
    /\ df_long.rows = <<>>
    /\ report # NoReport
    /\ report.zero_ratio.nan

---------------------------------------------------------------------------
(* Claims about the aggregates (SpecAgg) *)

\* C1 (as stated): on a long table without rows each aggregate returns an
\* empty table and none raises.
C1_EmptyTableNeverRaises ==
    (pc = "aggregated" /\ df_long.rows = <<>>) =>
        (err = "none" /\ results[1].rows = <<>>)

\* The number of non-missing readings of the group a PeakTimes row stands
\* for, counted in the long table.
ReadingsOf(row) ==
    Cardinality({r \in DOMAIN df_long.rows :
        /\ At(df_long, r, <<"day_type">>) = row.day_type
        /\ At(df_long, r, <<"line">>) = row.line
        /\ At(df_long, r, <<"station_name">>) = row.station_name
        /\ At(df_long, r, <<"direction">>) = row.direction
        /\ ~IsNaN(At(df_long, r, <<"congestion">>))})

PeakTimesDone ==
    pc = "aggregated" /\ err = "none" /\ results[1].name = "peak_times"

\* C10 (as stated): every PeakTimes row has a defined variance >= 0.
C10_VarianceNonNegative ==
    PeakTimesDone =>
        \A k \in DOMAIN results[1].rows :
            /\ ~results[1].rows[k].variance.nan
            /\ results[1].rows[k].variance.num >= 0
            /\ results[1].rows[k].variance.den > 0

\* C10 (amended): a PeakTimes row whose group has at least two non-missing
\* readings has a defined variance >= 0; a row whose group has a single
\* non-missing reading has no variance (NaN).
C10_VarianceNonNegativeOrNaN ==
    PeakTimesDone =>
        \A k \in DOMAIN results[1].rows :
            LET row == results[1].rows[k] IN
            /\ ReadingsOf(row) >= 1
            /\ ReadingsOf(row) >= 2 =>
                  (~row.variance.nan /\ row.variance.num >= 0
                   /\ row.variance.den > 0)
            /\ ReadingsOf(row) = 1 => row.variance.nan

\* C10 witness: a group of two different readings with a positive variance.
C10_Witness ==
    /\ PeakTimesDone
    /\ \E k \in DOMAIN results[1].rows :
          /\ ReadingsOf(results[1].rows[k]) = 2
          /\ ~results[1].rows[k].variance.nan
          /\ results[1].rows[k].variance.num > 0

\* C10 also meets the group of a single reading.
C10_WitnessSingleReading ==
    /\ PeakTimesDone
    /\ \E k \in DOMAIN results[1].rows :
          /\ ReadingsOf(results[1].rows[k]) = 1
          /\ results[1].rows[k].variance.nan


\* The rows of the long table in the group an output row stands for.
GroupOf(row) ==
    {r \in DOMAIN df_long.rows :
        /\ At(df_long, r, <<"day_type">>) = row.day_type
        /\ At(df_long, r, <<"line">>) = row.line
        /\ At(df_long, r, <<"station_name">>) = row.station_name
        /\ At(df_long, r, <<"direction">>) = row.direction}

\* The rows of the long table with a reading > 0.
PositiveRows ==
    {r \in DOMAIN df_long.rows :
        /\ At(df_long, r, <<"congestion">>).t = "num"
        /\ At(df_long, r, <<"congestion">>).n > 0}

\* The (day_type, line, station_name, direction) of a row of the long
\* table, and of an output row.
StationKeyOf(r) == KeyOfRow(df_long, r, STATION_KEY)
RowKey(row) == <<row.day_type, row.line, row.station_name, row.direction>>

\* The groups with at least one reading > 0.
PositiveKeys == {StationKeyOf(r) : r \in PositiveRows}

\* C11: in every PeakTimes row peak_congestion >= least_congestion > 0,
\* each of the two is a reading > 0 of the row's own group together with
\* its time_slot, and no reading > 0 of the group is above the peak or
\* below the least.
C11_PeakAndLeastFromGroup ==
    PeakTimesDone =>
        \A k \in DOMAIN results[1].rows :
            LET row == results[1].rows[k]
                pos == GroupOf(row) \cap PositiveRows
            IN  /\ row.peak_congestion.t = "num"
                /\ row.least_congestion.t = "num"
                /\ row.peak_congestion.n >= row.least_congestion.n
                /\ row.least_congestion.n > 0
                /\ \E r \in pos :
                      /\ At(df_long, r, <<"congestion">>) = row.peak_congestion
                      /\ At(df_long, r, <<"time_slot">>) = row.peak_time
                /\ \E r \in pos :
                      /\ At(df_long, r, <<"congestion">>) = row.least_congestion
                      /\ At(df_long, r, <<"time_slot">>) = row.least_time
                /\ \A r \in pos :
                      /\ At(df_long, r, <<"congestion">>).n <= row.peak_congestion.n
                      /\ At(df_long, r, <<"congestion">>).n >= row.least_congestion.n

\* C11 witness: a row whose peak and least are two different readings, the
\* least one coming later in the table.
C11_Witness ==
    /\ PeakTimesDone
    /\ \E k \in DOMAIN results[1].rows :
          /\ results[1].rows[k].peak_congestion.n
                > results[1].rows[k].least_congestion.n
          /\ results[1].rows[k].peak_time # results[1].rows[k].least_time
          /\ At(df_long, 1, <<"congestion">>) = results[1].rows[k].peak_congestion

\* C12: calc_peak_times does not raise, and PeakTimes holds exactly one row
\* for each group with a reading > 0 and no row for any other group.
C12_OneRowPerOperatingGroup ==
    (pc = "aggregated" /\ results[1].name = "peak_times") =>
        /\ err = "none"
        /\ {RowKey(results[1].rows[k]) : k \in DOMAIN results[1].rows}
              = PositiveKeys
        /\ Len(results[1].rows) = Cardinality(PositiveKeys)

\* C12 witness: one group whose readings are all 0 beside one group with a
\* reading > 0; a single row comes out.
C12_Witness ==
    /\ PeakTimesDone
    /\ Len(results[1].rows) = 1
    /\ \E r \in DOMAIN df_long.rows :
          /\ At(df_long, r, <<"congestion">>) = Num(0)
          /\ StationKeyOf(r) \notin PositiveKeys

TopLeastDone ==
    pc = "aggregated" /\ err = "none"
    /\ results[1].name = "top_least_congested"

\* C13: every TopLeastCongested row has a mean > 0 and stands for a group
\* with a reading > 0; and every day type that has such a group has a row,
\* whatever n is: a group of mean 0 takes none of the n places.
C13_NoZeroMeanInTopLeast ==
    TopLeastDone =>
        /\ \A k \in DOMAIN results[1].rows :
              /\ ~results[1].rows[k].avg_congestion.nan
              /\ results[1].rows[k].avg_congestion.num > 0
              /\ RowKey(results[1].rows[k]) \in PositiveKeys
        /\ \A key \in PositiveKeys :
              \E k \in DOMAIN results[1].rows :
                  results[1].rows[k].day_type = key[1]

\* C13 witness: a group of mean 0 and a group of mean > 0 on the same day
\* type; the one row of that day is the second group's.
C13_Witness ==
    /\ TopLeastDone
    /\ Len(results[1].rows) = 1
    /\ \E r \in DOMAIN df_long.rows :
          /\ At(df_long, r, <<"congestion">>) = Num(0)
          /\ StationKeyOf(r) \notin PositiveKeys
          /\ At(df_long, r, <<"day_type">>) = results[1].rows[1].day_type

RankingDone ==
    pc = "aggregated" /\ err = "none"
    /\ results[1].name \in {"top_congested", "top_least_congested"}

\* C14 (as stated): in both rankings the ranks of a day type's k rows are
\* exactly 1..k, avg_congestion is non-increasing in rank in TopCongested
\* and non-decreasing in TopLeastCongested, and rank_type is the table's.
C14_RanksAndOrder ==
    RankingDone =>
        LET rows == results[1].rows
            most == results[1].name = "top_congested"
        IN  \A k \in DOMAIN rows :
              LET part == {j \in DOMAIN rows : rows[j].day_type = rows[k].day_type}
              IN  /\ {rows[j].rank : j \in part} = 1..Cardinality(part)
                  /\ rows[k].rank_type = (IF most THEN "honjap" ELSE "yeoyu")
                  /\ \A j \in part :
                        rows[k].rank < rows[j].rank =>
                            IF most
                            THEN QLeq(rows[j].avg_congestion, rows[k].avg_congestion)
                            ELSE QLeq(rows[k].avg_congestion, rows[j].avg_congestion)


---------------------------------------------------------------------------
(* Inputs of the cleanser: long tables as the reshaper leaves them *)

MaxCleanRows == 2

\* A long table with every column, one without congestion, one without
\* station_name.
CleanLayouts ==
    { LONG_COLS,
      SelectSeq(LONG_COLS, LAMBDA c : c # <<"congestion">>),
      SelectSeq(LONG_COLS, LAMBDA c : c # <<"station_name">>) }

\* Station names with blanks before, after and inside, or missing;
\* readings as numbers or as text (padded, negative, unparsable, empty), or
\* missing.
CleanCells(c) ==
    CASE c = <<"day_type">>     -> {Str(<<"W">>)}
      [] c = <<"line">>         -> {Str(<<"L">>)}
      [] c = <<"station_code">> -> {Num(1)}
      [] c = <<"station_name">> -> {Str(<<"A">>), Str(<<" ", "A", " ">>),
                                    Str(<<"A", " ", " ", " ", "B">>), NaN}
      [] c = <<"direction">>    -> {Str(<<"U">>)}
      [] c = <<"time_slot">>    -> {Str(T0530)}
      [] c = <<"congestion">>   -> {Num(-5), Num(0), Num(10), Num(250),
                                    Str(<<" ", "1", "0", " ">>),
                                    Str(<<"-", "3">>), Str(<<"x">>),
                                    Str(<<>>), NaN}

CleanDom == [c \in Range(LONG_COLS) |-> CleanCells(c)]

\* df is the table handed to the cleanser, df_long the table it returns.
InitClean ==
    /\ pc = "long"
    /\ \E layout \in CleanLayouts :
          \E rows \in SeqsUpTo(RowSet(layout, CleanDom), MaxCleanRows) :
             df_long = [cols |-> layout, rows |-> rows]
    /\ df = df_long
    /\ input_csv = NoInput
    /\ load = NoLoad
    /\ levels = <<>>
    /\ raw = EmptyTable
    /\ report = NoReport
    /\ results = NoResults
    /\ err = "none"
    /\ files = <<>>
    /\ exit_code = -1

\* The cleanser applied to its own output: both functions once more.
CleanAgain ==
    /\ pc = "cleansed"
    /\ df' = df_long
    /\ df_long' = clean_station_names(clean_congestion_values(df_long))
    /\ pc' = "cleansed_twice"
    /\ UNCHANGED <<input_csv, load, levels, raw, report, results, err, files, exit_code>>

NextClean ==
    \/ CleanCongestion
    \/ CleanStationNames
    \/ CleanAgain

SpecClean == InitClean /\ [][NextClean]_vars

---------------------------------------------------------------------------
(* Claims about the cleanser (SpecClean) *)

\* clean_congestion_values has run on df and nothing after it has replaced
\* df: df_long holds its result, cell for cell.
CongestionCleaned ==
    /\ pc \in {"congestion_cleaned", "cleansed"}
    /\ HasCol(df, <<"congestion">>)

\* What a congestion cell parses to: a number, or nothing.
ParsedReading(c) == ToNumeric(IF c.t = "str" THEN Str(Strip(c.s)) ELSE c)

\* C15: after clean_congestion_values every congestion value is missing or
\* a number >= 0; a value that parsed to a number < 0 is missing, a value
\* that parsed to a number >= 0 is that number; the table keeps its rows.
C15_CleansedNonNegative ==
    CongestionCleaned =>
        /\ Len(df_long.rows) = Len(df.rows)
        /\ \A r \in DOMAIN df.rows :
              LET parsed == ParsedReading(At(df, r, <<"congestion">>))
                  after  == At(df_long, r, <<"congestion">>)
              IN  /\ after.t \in {"nan", "num"}
                  /\ after.t = "num" => after.n >= 0
                  /\ (parsed.t = "num" /\ parsed.n < 0) => after = NaN
                  /\ (parsed.t = "num" /\ parsed.n >= 0) => after = parsed

\* C15 witness: a negative number and a padded text number in one column.
C15_Witness ==
    /\ CongestionCleaned
    /\ \E r1, r2 \in DOMAIN df.rows :
          /\ At(df, r1, <<"congestion">>) = Num(-5)
          /\ At(df_long, r1, <<"congestion">>) = NaN
          /\ At(df, r2, <<"congestion">>) = Str(<<" ", "1", "0", " ">>)
          /\ At(df_long, r2, <<"congestion">>) = Num(10)

\* C17: the cleanser applied to its own output returns that output.
C17_CleansingIdempotent ==
    pc = "cleansed_twice" => df_long = df

\* C17 witness: a second pass over a table the first pass has changed in
\* both columns (a blank-ridden station name, a negative reading).
C17_Witness ==
    /\ pc = "cleansed_twice"
    /\ df_long = df
    /\ HasCol(df, <<"station_name">>)
    /\ HasCol(df, <<"congestion">>)
    /\ \E r \in DOMAIN df.rows :
          /\ At(df, r, <<"station_name">>) = Str(<<"A", " ", "B">>)
          /\ At(df, r, <<"congestion">>) = NaN
    /\ \E r \in DOMAIN df.rows : At(df, r, <<"station_name">>) = Str(<<"n", "a", "n">>)


---------------------------------------------------------------------------
(* Further claims about a whole run (Spec) *)

\* The long table of the run before cleansing, and its rows whose reading
\* parses to a number above 200.
LongBefore == wide_to_long(df)
OutlierRows ==
    {r \in DOMAIN LongBefore.rows :
        LET parsed == ParsedReading(At(LongBefore, r, <<"congestion">>))
        IN  parsed.t = "num" /\ parsed.n > 200}

\* Both cleansing steps of the run are done.
RunCleansed ==
    /\ input_csv.exists
    /\ pc \in {"cleansed", "validated", "long_written", "phase1_done",
               "computed", "exited"}

\* C16: a reading above 200 is unchanged by cleansing and its row stays in
\* the long table; the report's above_200 is the number of such rows; and
\* the aggregates computed from the long table see the reading: the
\* StationTimeAvg row of its group has a maximum at least as large.
C16_OutliersFlaggedNotFiltered ==
    RunCleansed =>
        /\ Len(df_long.rows) = Len(LongBefore.rows)
        /\ \A r \in OutlierRows :
              At(df_long, r, <<"congestion">>)
                 = ParsedReading(At(LongBefore, r, <<"congestion">>))
        /\ report # NoReport =>
              report.outliers.above_200 = Cardinality(OutlierRows)
        /\ results # NoResults =>
              \A r \in OutlierRows :
                 (\A q \in DOMAIN STATION_TIME_KEY :
                      ~IsNaN(At(df_long, r, STATION_TIME_KEY[q])))
                 => \E k \in DOMAIN results[2].rows :
                       /\ results[2].rows[k].day_type = At(df_long, r, <<"day_type">>)
                       /\ results[2].rows[k].station_name
                             = At(df_long, r, <<"station_name">>)
                       /\ results[2].rows[k].time_slot = At(df_long, r, <<"time_slot">>)
                       /\ results[2].rows[k].max_congestion.t = "num"
                       /\ results[2].rows[k].max_congestion.n
                             >= At(df_long, r, <<"congestion">>).n

\* C16 witness: a run that ends well with one reading of 250 beside an
\* ordinary one, counted once in the report.
C16_Witness ==
    /\ RunSucceeded
    /\ Cardinality(OutlierRows) = 1
    /\ Len(df_long.rows) = 2
    /\ report.outliers.above_200 = 1
    /\ \E r \in OutlierRows : At(df_long, r, <<"congestion">>) = Num(250)


\* C19: when the source file does not exist the run ends at main's own
\* check with exit status 1: no exception has been raised, load_csv has
\* tried nothing, no table has been loaded, standardized, reshaped,
\* cleansed, validated or aggregated, and nothing has been written.
C19_MissingInputFailsFast ==
    (~input_csv.exists /\ pc # "start") =>
        /\ pc = "exited"
        /\ exit_code = 1
        /\ err = "none"
        /\ load.tried = <<>>
        /\ raw = EmptyTable
        /\ df = EmptyTable
        /\ df_long = EmptyTable
        /\ report = NoReport
        /\ results = NoResults
        /\ files = <<>>

\* C19 witness: the run over a missing file has ended.
C19_Witness == ~input_csv.exists /\ pc = "exited" /\ exit_code = 1

---------------------------------------------------------------------------
(* Inputs of the loader: files and encodings arguments *)

MaxEncodings == 3

\* The encodings arguments: every list of up to MaxEncodings names, and
\* the default.
EncodingLists == SeqsUpTo(EncodingNames, MaxEncodings) \cup {DEFAULT_ENCODINGS}

InitLoad ==
    /\ pc = "load"
    /\ \E exists \in BOOLEAN, kind \in FileKinds :
          input_csv = [exists |-> exists, reads |-> kind,
                       table  |-> [cols |-> << <<"hoseon">>, H530 >>,
                                   rows |-> << <<Str(<<"L">>), Num(10)>> >>]]
    /\ \E encodings \in EncodingLists : load = LoadArgs(encodings)
    /\ levels = <<>>
    /\ raw = EmptyTable
    /\ df = EmptyTable
    /\ df_long = EmptyTable
    /\ report = NoReport
    /\ results = NoResults
    /\ err = "none"
    /\ files = <<>>
    /\ exit_code = -1

NextLoad == LoadCsv

SpecLoad == InitLoad /\ [][NextLoad]_vars

---------------------------------------------------------------------------
(* Claims about the loader (SpecLoad) *)

\* load_csv has been called on a file that exists.
LoadDone == input_csv.exists /\ pc \in {"raw", "exited"}

\* Reading under the i-th candidate ends with an error the loop catches.
FailsToDecode(i) == input_csv.reads[load.encodings[i]] \in Caught

\* C20: the encodings tried are the candidates in list order up to the
\* one that stopped the loop; when the first candidate that does not fail
\* to decode reads, its table is returned and no later candidate is tried;
\* when every candidate fails, load_csv raises ValueError, the message
\* names the whole list and the last error caught, and nothing is written.
C20_EncodingFallbackInOrder ==
    LoadDone =>
        /\ Len(load.tried) <= Len(load.encodings)
        /\ \A i \in DOMAIN load.tried : load.tried[i] = load.encodings[i]
        /\ \A i \in DOMAIN load.encodings :
              (/\ input_csv.reads[load.encodings[i]] = "ok"
               /\ \A j \in 1..(i - 1) : FailsToDecode(j))
              => /\ pc = "raw"
                 /\ err = "none"
                 /\ raw = input_csv.table
                 /\ load.encoding = load.encodings[i]
                 /\ Len(load.tried) = i
        /\ (load.encodings # <<>> /\ \A i \in DOMAIN load.encodings : FailsToDecode(i))
              => /\ pc = "exited"
                 /\ err = "ValueError"
                 /\ load.tried = load.encodings
                 /\ load.message.encodings = load.encodings
                 /\ load.message.last_error
                       = input_csv.reads[load.encodings[Len(load.encodings)]]
                 /\ raw = EmptyTable
                 /\ files = <<>>

\* C20 witness: the default list on a file that is not valid cp949 or
\* euc-kr but valid utf-8: the third candidate reads, the fourth is not
\* tried.
C20_Witness ==
    /\ LoadDone
    /\ load.encodings = DEFAULT_ENCODINGS
    /\ load.tried = <<"cp949", "euc-kr", "utf-8-sig">>
    /\ load.encoding = "utf-8-sig"
    /\ raw = input_csv.table

\* C20 also meets the file no candidate decodes.
C20_WitnessExhausted ==
    /\ LoadDone
    /\ load.encodings = DEFAULT_ENCODINGS
    /\ err = "ValueError"
    /\ load.message.encodings = DEFAULT_ENCODINGS
    /\ load.message.last_error = "UnicodeDecodeError"


---------------------------------------------------------------------------
(* Inputs of the classifier: congestion values in halves *)

MaxLevelHalves == 200

\* 0, 0.5, 1, ... up to MaxLevelHalves / 2, a negative value and NaN.
LevelInputs == {Q(k, 2) : k \in 0..MaxLevelHalves} \cup {Q(-1, 2), NaNQ}

InitLevel ==
    /\ pc = "classify"
    /\ levels = <<>>
    /\ input_csv = NoInput
    /\ load = NoLoad
    /\ raw = EmptyTable
    /\ df = EmptyTable
    /\ df_long = EmptyTable
    /\ report = NoReport
    /\ results = NoResults
    /\ err = "none"
    /\ files = <<>>
    /\ exit_code = -1

\* One call of get_congestion_level; two calls are enough to compare.
Classify ==
    /\ pc = "classify"
    /\ Len(levels) < 2
    /\ \E q \in LevelInputs :
          levels' = Append(levels, [congestion |-> q,
                                    level      |-> get_congestion_level(q)])
    /\ UNCHANGED <<pc, input_csv, load, raw, df, df_long, report, results,
                   err, files, exit_code>>

NextLevel == Classify

SpecLevel == InitLevel /\ [][NextLevel]_vars

---------------------------------------------------------------------------
(* Claims about the classifier (SpecLevel) *)

\* The severity of a label: yeoyu < botong < honjap < maeu_honjap.
Severity(level) ==
    CASE level = "yeoyu"       -> 1
      [] level = "botong"      -> 2
      [] level = "honjap"      -> 3
      [] level = "maeu_honjap" -> 4
      [] OTHER                 -> 0

NonNegative(q) == ~q.nan /\ q.num >= 0

\* C18: for an input >= 0 the label is one of the four, it is yeoyu below
\* 30, botong from 30 to below 60, honjap from 60 to below 90 and
\* maeu_honjap from 90 on; and of two inputs >= 0 the larger never has the
\* lower severity.
C18_ClassifierTotalMonotone ==
    /\ \A i \in DOMAIN levels :
          LET c == levels[i].congestion
              l == levels[i].level
          IN  NonNegative(c) =>
                /\ Severity(l) \in 1..4
                /\ (l = "yeoyu") <=> QLess(c, Q(30, 1))
                /\ (l = "botong") <=> (QLeq(Q(30, 1), c) /\ QLess(c, Q(60, 1)))
                /\ (l = "honjap") <=> (QLeq(Q(60, 1), c) /\ QLess(c, Q(90, 1)))
                /\ (l = "maeu_honjap") <=> QLeq(Q(90, 1), c)
    /\ \A i, j \in DOMAIN levels :
          (/\ NonNegative(levels[i].congestion)
           /\ NonNegative(levels[j].congestion)
           /\ QLeq(levels[i].congestion, levels[j].congestion))
          => Severity(levels[i].level) <= Severity(levels[j].level)

\* C18 witness: 29.5 then 30, on the two sides of the first boundary.
C18_Witness ==
    /\ Len(levels) = 2
    /\ levels[1] = [congestion |-> Q(59, 2), level |-> "yeoyu"]
    /\ levels[2] = [congestion |-> Q(60, 2), level |-> "botong"]

\* C18 also meets the last boundary: 89.5 then 90.
C18_WitnessUpper ==
    /\ Len(levels) = 2
    /\ levels[1] = [congestion |-> Q(179, 2), level |-> "honjap"]
    /\ levels[2] = [congestion |-> Q(180, 2), level |-> "maeu_honjap"]


---------------------------------------------------------------------------
(* Claims about the artifacts and the order of a run (Spec) *)

\* The seven artifacts in the order a run writes them.
ARTIFACTS ==
    <<"congestion_long", "data_quality_report", "line_time_avg",
      "station_time_avg", "top_congested", "top_least_congested",
      "peak_times">>

IsPrefix(a, b) == Len(a) <= Len(b) /\ a = SubSeq(b, 1, Len(a))

\* C21: a run ends with exit status 0 only with all seven artifacts
\* written; a write that fails ends the run with exit status 1; once an
\* error is raised no artifact is written any more; and an artifact
\* written stays (the list of artifacts only grows).
C21_AllArtifactsOrFailure ==
    /\ [](exit_code = 0 => files = ARTIFACTS)
    /\ [](err = "OSError" => (pc = "exited" /\ exit_code = 1))
    /\ [][/\ IsPrefix(files, files')
          /\ err # "none" => files' = files]_vars

\* C21 witness: the write of the second aggregate file fails; the three
\* artifacts written before it are in place.
C21_Witness ==
    /\ err = "OSError"
    /\ exit_code = 1
    /\ files = SubSeq(ARTIFACTS, 1, 3)


\* The position of a stage in the order of a run.
STAGES ==
    <<"start", "load", "raw", "standardized", "long", "congestion_cleaned",
      "cleansed", "validated", "long_written", "phase1_done", "computed">>

StageRank(p) == CHOOSE i \in DOMAIN STAGES : STAGES[i] = p

\* The long table of the run's source after both cleansers.
Cleansed ==
    clean_station_names(clean_congestion_values(
        wide_to_long(standardize_columns(raw))))

\* What the five aggregations give on a table.
AggregatesOf(d) ==
    [i \in DOMAIN AggregateOutcomes(d) |->
        [name |-> AggregateOutcomes(d)[i].name,
         rows |-> AggregateOutcomes(d)[i].out.rows]]

\* The outputs present at stage p are the outputs of the stages before p,
\* each computed from the output of the stage before it; the later ones
\* are not there yet.
OutputsAt(p) ==
    /\ raw = (IF p >= 3 THEN input_csv.table ELSE EmptyTable)
    /\ df = (IF p >= 4 THEN standardize_columns(raw) ELSE EmptyTable)
    /\ df_long = (CASE p <= 4 -> EmptyTable
                    [] p = 5 -> wide_to_long(df)
                    [] p = 6 -> clean_congestion_values(wide_to_long(df))
                    [] OTHER -> Cleansed)
    /\ report = (IF p >= 8 THEN validate_data(Cleansed) ELSE NoReport)
    /\ results = (IF p >= 11 THEN AggregatesOf(Cleansed) ELSE NoResults)
    /\ (p <= 8) => files = <<>>
    /\ (p = 9) => files = SubSeq(ARTIFACTS, 1, 1)
    /\ (p = 10) => files = SubSeq(ARTIFACTS, 1, 2)

\* C22: the stages run in the order load, standardize, reshape, cleanse
\* congestion, cleanse station names, validate, write long table, write
\* report, aggregate: every step moves to the next stage (or ends the run),
\* at every stage the outputs of the earlier stages are complete and those
\* of the later ones absent, and the report and the five aggregates are
\* computed from the table after both cleansers.
C22_StagesInOrder ==
    /\ [](pc # "exited" => OutputsAt(StageRank(pc)))
    /\ [](report # NoReport =>
              (df_long = Cleansed /\ report = validate_data(Cleansed)))
    /\ [](results # NoResults => results = AggregatesOf(Cleansed))
    /\ [][pc' # pc =>
            \/ pc' = "exited"
            \/ StageRank(pc') = StageRank(pc) + 1]_vars

\* C22 witness: a run over a table the cleansers change has gone through
\* every stage.
C22_Witness ==
    /\ pc = "exited"
    /\ exit_code = 0
    /\ results # NoResults
    /\ Cleansed # wide_to_long(df)
    /\ validate_data(Cleansed) # validate_data(wide_to_long(df))


\* One of the five aggregate computations raised: the report exists, and
\* the error is not one of a write.
AggregateRaised ==
    /\ pc = "exited"
    /\ report # NoReport
    /\ err \notin {"none", "OSError"}

\* C28: the aggregate files are written in the order of file_mapping after
\* the two files of phase 1; the first of them is written only when all
\* five aggregates are computed, and these only when both files of phase 1
\* are written; so when an aggregate computation raises, the long table
\* and the report are on disk and no aggregate file is.
C28_ComputeAllThenWrite ==
    /\ IsPrefix(files, ARTIFACTS)
    /\ Len(files) > 2 => Len(results) = 5
    /\ results # NoResults => Len(files) >= 2
    /\ AggregateRaised => files = SubSeq(ARTIFACTS, 1, 2)

\* C28 witness: an aggregate computation raised after phase 1 had written
\* its two files.
C28_Witness ==
    /\ AggregateRaised
    /\ \E i \in 3..5 : AggregateOutcomes(df_long)[i].out.raised = err
    /\ files = SubSeq(ARTIFACTS, 1, 2)

\* C28 witness: all five aggregate files written, in order.
C28_WitnessWritten == files = ARTIFACTS /\ Len(results) = 5


---------------------------------------------------------------------------
(* Further claims about the loader (SpecLoad) *)

\* Reading under the i-th candidate ends with an error other than a
\* decode error or an unknown encoding name.
FailsOtherwise(i) ==
    input_csv.reads[load.encodings[i]]
        \notin {"ok", "UnicodeDecodeError", "LookupError"}

\* C29: when the first candidate that does not fail to decode fails with
\* another error (a text that is no CSV table), load_csv raises that very
\* error at once: the candidates after it are not tried, nothing is
\* returned, and the error is not the ValueError that names the encodings
\* tried.
C29_OtherErrorsNotRetried ==
    LoadDone =>
        \A i \in DOMAIN load.encodings :
            (FailsOtherwise(i) /\ \A j \in 1..(i - 1) : FailsToDecode(j))
            => /\ pc = "exited"
               /\ err = input_csv.reads[load.encodings[i]]
               /\ err # "ValueError"
               /\ load.tried = SubSeq(load.encodings, 1, i)
               /\ load.message.encodings = <<>>
               /\ load.encoding = "none"
               /\ raw = EmptyTable

\* C29 witness: the first candidate fails to decode, the second decodes a
\* text that does not parse, a third candidate is left untried.
C29_Witness ==
    /\ LoadDone
    /\ Len(load.encodings) >= 3
    /\ FailsToDecode(1)
    /\ FailsOtherwise(2)
    /\ ~FailsToDecode(3)
    /\ err = "ParserError"
    /\ Len(load.tried) = 2


---------------------------------------------------------------------------
(* Further claims about the aggregates (SpecAgg) *)

\* The key columns of an aggregate, and the key of one of its rows.
KeyColsOf(name) ==
    CASE name = "line_time_avg"    -> LINE_TIME_KEY
      [] name = "station_time_avg" -> STATION_TIME_KEY
      [] OTHER                     -> STATION_KEY

OutKey(name, row) ==
    CASE name = "line_time_avg" ->
            <<row.day_type, row.line, row.time_slot>>
      [] name = "station_time_avg" ->
            <<row.day_type, row.line, row.station_name, row.direction,
              row.time_slot>>
      [] OTHER -> RowKey(row)

\* The rows of the long table that hold a reading.
UsableRows ==
    {r \in DOMAIN df_long.rows : ~IsNaN(At(df_long, r, <<"congestion">>))}

\* The groups, under the key columns kc, with at least one reading.
UsableKeys(kc) == {KeyOfRow(df_long, r, kc) : r \in UsableRows}

\* C23 (as stated): no aggregate has a row for a group all of whose
\* readings are missing, and such a group makes no aggregate raise.
C23_EmptyGroupOmitted ==
    pc = "aggregated" =>
        /\ \A k \in DOMAIN results[1].rows :
              OutKey(results[1].name, results[1].rows[k])
                  \in UsableKeys(KeyColsOf(results[1].name))
        /\ PositiveRows # {} => err = "none"


\* One of the two rankings has been applied.
RankingApplied ==
    pc = "aggregated"
    /\ results[1].name \in {"top_congested", "top_least_congested"}

\* The mean of the readings of the station group with the given key.
MeanOfKey(key) == Mean(NonMissing(GroupCells(df_long, STATION_KEY, key)))

\* The station groups of a day type that a ranking chooses from: all of
\* them for TopCongested, those with a mean > 0 for TopLeastCongested.
Eligible(name, day) ==
    {key \in {StationKeyOf(r) : r \in DOMAIN df_long.rows} :
        /\ key[1] = day
        /\ name = "top_least_congested" => QLess(Q(0, 1), MeanOfKey(key))}

MinOfTwo(a, b) == IF a < b THEN a ELSE b

\* The rows of a ranking that belong to a day type.
RowsOfDay(day) ==
    {k \in DOMAIN results[1].rows : results[1].rows[k].day_type = day}

\* The rows of a day type are min(n, e) of its e eligible groups, each once,
\* and no eligible group left out is more extreme than one selected.
ExtremesOfDay(name, n, day) ==
    LET e        == Eligible(name, day)
        selected == {RowKey(results[1].rows[k]) : k \in RowsOfDay(day)}
    IN  /\ Cardinality(RowsOfDay(day)) = MinOfTwo(n, Cardinality(e))
        /\ Cardinality(selected) = Cardinality(RowsOfDay(day))
        /\ selected \subseteq e
        /\ \A k \in RowsOfDay(day) :
              results[1].rows[k].avg_congestion
                  = MeanOfKey(RowKey(results[1].rows[k]))
        /\ \A out \in e \ selected : \A in \in selected :
              IF name = "top_congested"
              THEN ~QLess(MeanOfKey(in), MeanOfKey(out))
              ELSE ~QLess(MeanOfKey(out), MeanOfKey(in))

\* C24 (as stated): a ranking with parameter n does not raise, and for
\* each day type of the long table it holds exactly min(n, e) rows, e being
\* the number of the day's eligible station groups, and these are the
\* extreme ones.
C24_TopNCountAndExtremes ==
    RankingApplied =>
        /\ err = "none"
        /\ \A day \in LongCells(<<"day_type">>) :
              ExtremesOfDay(results[1].name, results[1].n, day)


\* The sum of f over the rows in S holding a reading, f being the reading
\* (square = FALSE) or its square.
RECURSIVE SumReadings(_, _)
SumReadings(S, square) ==
    IF S = {} THEN 0
    ELSE LET r == CHOOSE x \in S : TRUE
             v == At(df_long, r, <<"congestion">>).n
         IN  (IF square THEN v * v ELSE v) + SumReadings(S \ {r}, square)

\* C25: in every PeakTimes row peak and least are readings > 0 of the
\* group, while avg_congestion is the sum of all the group's non-missing
\* readings, zeros included, over their number, and variance is their
\* sample variance (none for a single reading).
C25_ZeroExclusionAsymmetry ==
    PeakTimesDone =>
        \A k \in DOMAIN results[1].rows :
            LET row == results[1].rows[k]
                all == GroupOf(row) \cap UsableRows
                pos == GroupOf(row) \cap PositiveRows
                n   == Cardinality(all)
                S   == SumReadings(all, FALSE)
                SS  == SumReadings(all, TRUE)
            IN  /\ \E r \in pos : At(df_long, r, <<"congestion">>) = row.peak_congestion
                /\ \E r \in pos : At(df_long, r, <<"congestion">>) = row.least_congestion
                /\ QEq(row.avg_congestion, Q(S, n))
                /\ IF n = 1 THEN row.variance.nan
                   ELSE QEq(row.variance, Q(n * SS - S * S, n * (n - 1)))

\* C25 witness: a group with a zero reading and a reading > 0: the mean
\* counts the zero and lies below the least reading > 0.
C25_Witness ==
    /\ PeakTimesDone
    /\ \E k \in DOMAIN results[1].rows :
          LET row == results[1].rows[k]
          IN  /\ \E r \in GroupOf(row) : At(df_long, r, <<"congestion">>) = Num(0)
              /\ QLess(row.avg_congestion, Q(row.least_congestion.n, 1))
              /\ ~row.variance.nan


\* The ranking named name with parameter n, applied to a table.
RankingOf(name, d, n) ==
    IF name = "top_congested" THEN calc_top_n_congested(d, n)
    ELSE calc_top_n_least_congested(d, n)

\* The long table with its rows i and i + 1 exchanged.  Every order of the
\* rows is reached by such exchanges, and each table they lead through is
\* a long table the ranking is checked on as well.
Exchanged(i) ==
    [cols |-> df_long.cols,
     rows |-> [r \in DOMAIN df_long.rows |->
                 df_long.rows[IF r = i THEN i + 1 ELSE IF r = i + 1 THEN i ELSE r]]]

\* Two station groups with the same mean.
SameMean(a, b) == QEq(MeanOfKey(a), MeanOfKey(b))

\* C26: of two rows of a day type with the same mean the one whose group
\* comes first in the grouped table (the sorted order of the group keys)
\* has the smaller rank; when the cut at n falls between groups of the same
\* mean the one that comes first is kept; and the ranking of the long table
\* is the same after any two neighbouring rows are exchanged, hence for
\* every order of its rows.
C26_TiesByGroupOrder ==
    RankingApplied =>
        LET rows == results[1].rows
            name == results[1].name
        IN  /\ \A j, k \in DOMAIN rows :
                  (/\ rows[j].day_type = rows[k].day_type
                   /\ SameMean(RowKey(rows[j]), RowKey(rows[k]))
                   /\ rows[j].rank < rows[k].rank)
                  => KeyLess(RowKey(rows[j]), RowKey(rows[k]))
            /\ \A k \in DOMAIN rows :
                  \A out \in Eligible(name, rows[k].day_type) :
                      (/\ \A j \in DOMAIN rows : RowKey(rows[j]) # out
                       /\ SameMean(out, RowKey(rows[k])))
                      => KeyLess(RowKey(rows[k]), out)
            /\ \A i \in 1..(Len(df_long.rows) - 1) :
                  LET again == RankingOf(name, Exchanged(i), results[1].n)
                  IN  again.raised = err /\ again.rows = rows

\* C26 witness: two groups of the same day type with the same mean, the
\* one with the greater key first in the long table, n = 1: the row kept
\* is the group with the smaller key.
C26_Witness ==
    /\ RankingApplied
    /\ err = "none"
    /\ results[1].n = 1
    /\ Len(df_long.rows) = 2
    /\ StationKeyOf(1) # StationKeyOf(2)
    /\ KeyLess(StationKeyOf(2), StationKeyOf(1))
    /\ SameMean(StationKeyOf(1), StationKeyOf(2))
    /\ Len(results[1].rows) = 1
    /\ RowKey(results[1].rows[1]) = StationKeyOf(2)


---------------------------------------------------------------------------
(* The cleansed table under the validator and the station aggregates *)

\* A long table as the reshaper leaves it is cleansed, then validated or
\* handed to one of the aggregates keyed by station.
NextStation ==
    \/ CleanCongestion
    \/ CleanStationNames
    \/ Validate
    \/ AggStationTimeAvg
    \/ AggTopCongested
    \/ AggTopLeastCongested
    \/ AggPeakTimes

SpecStation == InitClean /\ [][NextStation]_vars

\* The text astype(str) gives for a missing cell.
NAN_TEXT == Str(<<"n", "a", "n">>)

\* Both cleansers have run on a table that has station names.
NamesCleansed ==
    /\ pc \in {"cleansed", "validated", "aggregated", "exited"}
    /\ HasCol(df, <<"station_name">>)

\* The rows whose station name was missing before the cleansing.
MissingNameRows ==
    {r \in DOMAIN df.rows : IsNaN(At(df, r, <<"station_name">>))}

\* The rows of an aggregate that stand for the station 'nan'.
NanStationRows ==
    {k \in DOMAIN results[1].rows : results[1].rows[k].station_name = NAN_TEXT}

\* The row r of the long table falls in the group of the output row.
InGroupOf(r, row) ==
    /\ r \in GroupOf(row)
    /\ results[1].name = "station_time_avg"
          => At(df_long, r, <<"time_slot">>) = row.time_slot

\* The aggregate has a row for the group of r whenever it is to have one:
\* always for StationTimeAvg and for TopCongested without a cut, for a
\* group with a reading > 0 in PeakTimes and in TopLeastCongested without
\* a cut.
Represented(r) ==
    LET name == results[1].name
        due  == CASE name = "station_time_avg" -> TRUE
                  [] name = "top_congested" -> results[1].n = TOP_N
                  [] name = "top_least_congested" ->
                        /\ results[1].n = TOP_N
                        /\ StationKeyOf(r) \in PositiveKeys
                  [] OTHER -> StationKeyOf(r) \in PositiveKeys
    IN  due => \E k \in NanStationRows : InGroupOf(r, results[1].rows[k])

\* C30: after the cleansing every station_name is text, a name that was
\* missing being the text 'nan'; the report counts no missing station_name;
\* and in StationTimeAvg, TopCongested, TopLeastCongested and PeakTimes the
\* rows that had no name form the group(s) of the one station 'nan': each
\* such group has a single row, and every row that had no name belongs to
\* one.
C30_MissingNameBecomesText ==
    NamesCleansed =>
        /\ \A r \in DOMAIN df_long.rows :
              /\ At(df_long, r, <<"station_name">>).t = "str"
              /\ r \in MissingNameRows
                    => At(df_long, r, <<"station_name">>) = NAN_TEXT
        /\ pc = "validated" =>
              ColIdx(df_long, <<"station_name">>) \notin DOMAIN report.null_count
        /\ (pc = "aggregated" /\ err = "none") =>
              /\ \A r \in MissingNameRows : Represented(r)
              /\ \A j, k \in NanStationRows :
                    OutKey(results[1].name, results[1].rows[j])
                        = OutKey(results[1].name, results[1].rows[k]) => j = k
              /\ \A k \in NanStationRows :
                    \E r \in MissingNameRows : InGroupOf(r, results[1].rows[k])

\* C30 witness: two rows without a station name make one row of
\* StationTimeAvg, for the station 'nan'.
C30_Witness ==
    /\ NamesCleansed
    /\ pc = "aggregated"
    /\ err = "none"
    /\ results[1].name = "station_time_avg"
    /\ Cardinality(MissingNameRows) = 2
    /\ Len(results[1].rows) = 1
    /\ results[1].rows[1].station_name = NAN_TEXT

\* C30 also meets the report of a table with a missing name.
C30_WitnessReport ==
    /\ NamesCleansed
    /\ pc = "validated"
    /\ MissingNameRows # {}
    /\ report.null_count = <<>>


---------------------------------------------------------------------------
(* The stages as calls: the caller's table and the table returned *)

\* A stage that assigns to the columns of the table it was handed: the
\* caller's table holds the result as well.
ArgAfterAlias(d, result) == result

\* df = df.copy() (lines 72, 149, 193): the assignments that follow change
\* the copy; the caller's table keeps its columns, rows and cells.
ArgAfterCopy(d, result) == d

\* df is the caller's table, a raw wide table or a long table; raw is what
\* it held before the call.
InitFrame ==
    /\ pc = "call"
    /\ \/ \E layout \in ReshapeLayouts :
            \E rows \in SeqsUpTo(RowSet(layout, ReshapeDom(layout)), MaxRows) :
               df = [cols |-> layout, rows |-> rows]
       \/ \E layout \in CleanLayouts :
            \E rows \in SeqsUpTo(RowSet(layout, CleanDom), MaxCleanRows) :
               df = [cols |-> layout, rows |-> rows]
    /\ raw = df
    /\ input_csv = NoInput
    /\ load = NoLoad
    /\ levels = <<>>
    /\ df_long = EmptyTable
    /\ report = NoReport
    /\ results = NoResults
    /\ err = "none"
    /\ files = <<>>
    /\ exit_code = -1

\* A stage that works on a copy of its argument returns: df_long is the
\* table returned, df the caller's table after the call.
CallOnCopy(name, result) ==
    /\ pc = "call"
    /\ pc' = name
    /\ df' = ArgAfterCopy(df, result)
    /\ df_long' = result
    /\ UNCHANGED <<input_csv, load, levels, raw, report, results, err, files, exit_code>>

CallStandardizeColumns ==
    CallOnCopy("standardize_columns", standardize_columns(df))

CallCleanCongestionValues ==
    CallOnCopy("clean_congestion_values", clean_congestion_values(df))

CallCleanStationNames ==
    CallOnCopy("clean_station_names", clean_station_names(df))

\* melt builds a new table from the columns it reads.
CallWideToLong ==
    /\ pc = "call"
    /\ pc' = "wide_to_long"
    /\ df_long' = wide_to_long(df)
    /\ UNCHANGED <<input_csv, load, levels, raw, df, report, results, err, files, exit_code>>

\* validate_data only reads its argument; it returns the report or raises.
CallValidateData ==
    /\ pc = "call"
    /\ pc' = "validate_data"
    /\ IF ValidateError(df) # "none"
       THEN err' = ValidateError(df) /\ UNCHANGED report
       ELSE report' = validate_data(df) /\ UNCHANGED err
    /\ UNCHANGED <<input_csv, load, levels, raw, df, df_long, results, files, exit_code>>

NextFrame ==
    \/ CallStandardizeColumns
    \/ CallWideToLong
    \/ CallCleanCongestionValues
    \/ CallCleanStationNames
    \/ CallValidateData

SpecFrame == InitFrame /\ [][NextFrame]_vars

\* The table b has the columns and rows of a, in the same order, and the
\* same cells outside the column c.
SameExcept(a, b, c) ==
    /\ b.cols = a.cols
    /\ Len(b.rows) = Len(a.rows)
    /\ \A r \in DOMAIN a.rows : \A j \in DOMAIN a.cols :
          a.cols[j] # c => b.rows[r][j] = a.rows[r][j]

C27_WitnessNames ==
    /\ pc = "clean_station_names"
    /\ df_long # raw
    /\ df = raw

===========================================================================
